---- MODULE Spec2Model ----
(***************************************************************************)
(* Model of the base geometry parser of cityjson-threejs-loader            *)
(* (src/src/parsers/geometry/BaseParser.js): the index registries          *)
(* (getObjectIdx, getObjectTypeIdx, getSurfaceTypeIdx, getLodIndex), the   *)
(* material lookup (getSurfaceMaterials) and the texture / UV resolution   *)
(* (getTextureData); of the chunked orchestrator; and of the texture       *)
(* manager (src/src/helpers/TextureManager.js): its slots, cache, material *)
(* list, loads in flight and error reports.                                *)
(*                                                                         *)
(* JavaScript values are records [t, n, a, s, id]: t is the type tag, n    *)
(* the value of a number, a the elements of an array, s the text of a      *)
(* string and id what tells two objects of the same content apart.         *)
(* UV coordinates and atlas regions are numbers measured in units of       *)
(* 1/UVDen, so that 0.5 is the number 2 when UVDen = 4.                    *)
(***************************************************************************)
EXTENDS Integers, Sequences, FiniteSets, TLC

VARIABLES json, objectIds, objectColors, surfaceColors, lods, pc, args, ret, trace,
          peer,
          cursor, buffer, chunks, stopRequested,
          cityTextures, textures, materials, textureCache, needsUpdate,
          pending, disposed, nextId, loaderCalls, calls, errorCallback, notified,
          baseMaterial, options

vars == <<json, objectIds, objectColors, surfaceColors, lods, pc, args, ret, trace,
          peer,
          cursor, buffer, chunks, stopRequested,
          cityTextures, textures, materials, textureCache, needsUpdate,
          pending, disposed, nextId, loaderCalls, calls, errorCallback, notified,
          baseMaterial, options>>

\* the state of the parsers
parserVars == <<json, objectIds, objectColors, surfaceColors, lods, trace, peer>>

\* the state of the chunked orchestrator
orchVars == <<cursor, buffer, chunks, stopRequested>>

\* no orchestrator has been started
OrchestratorIdle ==
    /\ cursor = 0
    /\ buffer = <<>>
    /\ chunks = <<>>
    /\ stopRequested = FALSE

\* the state of the texture manager: its fields, the loads in flight
\* (pending), the objects dispose() was called on (disposed), the number the
\* next new object gets (nextId), the URLs loader.load was called with since
\* the cache was last reset (loaderCalls), the number of calls made on the
\* manager since its construction (calls), whether this.onError is set
\* (errorCallback), what the last step called of this.onChange,
\* this.onError and console.error and the exception it ended with
\* (notified), the material the caller passes to getMaterials
\* (baseMaterial), and the loaders of compressed textures the manager was
\* constructed with (options)
tmVars == <<cityTextures, textures, materials, textureCache, needsUpdate,
            pending, disposed, nextId, loaderCalls, calls, errorCallback, notified,
            baseMaterial, options>>

\* the slots of this.textures, from 0
Slots == {0, 1}

\* the image URLs of the documents and the names of the uploaded files
Urls == {"a.png", "tex/a.png", "a.ktx2", "procedural://brick"}

\* an image and a compressed texture
FileNames == {"a.png", "a.ktx2"}

\* this.options of a manager constructed without options: ktx2Loader and
\* ddsLoader are null
DefaultOptions == [ktx2Loader |-> FALSE, ddsLoader |-> FALSE]

\* the options { ktx2Loader } of a caller that has a KTX2Loader
Ktx2Options == [DefaultOptions EXCEPT !.ktx2Loader = TRUE]

OptionSets == {DefaultOptions, Ktx2Options}

\* a slot or a cache entry that holds nothing
NoTexture == [id |-> -2, name |-> "", image |-> "", cloneOf |-> -2, wrap |-> ""]

\* a plain object { objectColors, surfaceColors } as a material: it has
\* neither uniforms nor a dispose method
PlainObject ==
    [id |-> -1, cityTexture |-> NoTexture, uniforms |-> FALSE, dispose |-> FALSE]

\* no texture manager has been constructed
ManagerIdle ==
    /\ cityTextures = <<>>
    /\ textures = [i \in Slots |-> NoTexture]
    /\ materials = <<>>
    /\ textureCache = [key \in Urls |-> NoTexture]
    /\ needsUpdate = FALSE
    /\ pending = {}
    /\ disposed = {}
    /\ nextId = 1
    /\ loaderCalls = <<>>
    /\ calls = 0
    /\ errorCallback = FALSE
    /\ notified = <<>>
    /\ baseMaterial = PlainObject
    /\ options = DefaultOptions

\* the state that is neither a parser's nor the current call
beyondParsers == <<orchVars, tmVars>>

BeyondParsersIdle == OrchestratorIdle /\ ManagerIdle

\* the state outside the one parser the single-parser specifications are about
others == <<peer, beyondParsers>>

\* no second parser has been constructed
NoPeer == [objectColors |-> <<>>, lods |-> <<>>]

OthersIdle == peer = NoPeer /\ BeyondParsersIdle

(***************************************************************************)
(* JavaScript values                                                       *)
(*                                                                         *)
(* A value is [t, n, a, s, id].  id tells objects apart: two arrays,       *)
(* objects, surfaces or functions are the same object when they are the    *)
(* same record, and an object that is another one than a given object has  *)
(* another id.  The values made by Arr, Obj and Surface have the id 0, the *)
(* built-in objects of the language have negative ids.  n of a function is *)
(* its length, s its name and a the name of the object that holds it.      *)
(***************************************************************************)
Undef == [t |-> "undefined", n |-> 0, a |-> <<>>, s |-> "", id |-> 0]

Null == [t |-> "null", n |-> 0, a |-> <<>>, s |-> "", id |-> 0]

NaN == [t |-> "NaN", n |-> 0, a |-> <<>>, s |-> "", id |-> 0]

Infinity == [t |-> "Infinity", n |-> 0, a |-> <<>>, s |-> "", id |-> 0]

NegInfinity == [t |-> "-Infinity", n |-> 0, a |-> <<>>, s |-> "", id |-> 0]

Num(k) == [t |-> "number", n |-> k, a |-> <<>>, s |-> "", id |-> 0]

\* a number that is no integer of the model, by its decimal text
Real(text) == [t |-> "real", n |-> 0, a |-> <<>>, s |-> text, id |-> 0]

Str(text) == [t |-> "string", n |-> 0, a |-> <<>>, s |-> text, id |-> 0]

Arr(elems) == [t |-> "array", n |-> 0, a |-> elems, s |-> "", id |-> 0]

\* a plain object without properties of its own
Obj == [t |-> "object", n |-> 0, a |-> <<>>, s |-> "", id |-> 0]

\* a semantic surface object { type: "<type>" }
Surface(type) == [t |-> "surface", n |-> 0, a |-> <<>>, s |-> type, id |-> 0]

\* what a property read gives when it raises a TypeError
Thrown == [t |-> "throw", n |-> 0, a |-> <<>>, s |-> "TypeError", id |-> 0]

\* what the lookup of a property gives on an object that has no such
\* property of its own
Absent == [t |-> "absent", n |-> 0, a |-> <<>>, s |-> "", id |-> 0]

\* Object.prototype, Array.prototype (an array without elements),
\* String.prototype (a String object of the text ""), Number.prototype (a
\* Number object of the number 0) and Function.prototype (a function with
\* the name "" and the length 0)
ObjectPrototype == [t |-> "object", n |-> 0, a |-> <<>>, s |-> "", id |-> -1]

ArrayPrototype == [t |-> "array", n |-> 0, a |-> <<>>, s |-> "", id |-> -2]

StringPrototype == [t |-> "object", n |-> 0, a |-> <<>>, s |-> "", id |-> -3]

NumberPrototype == [t |-> "object", n |-> 0, a |-> <<>>, s |-> "", id |-> -4]

FunctionPrototype == [t |-> "function", n |-> 0, a |-> <<>>, s |-> "", id |-> -5]

\* the keys under which the object named holder (a prototype or a
\* constructor of objects, arrays, strings, numbers and functions) holds a
\* built-in function of the given length (ECMAScript 2023 with Annex B and
\* the well-formedness methods of strings)
BuiltinKeys(holder, length) ==
    CASE holder = "Object.prototype" /\ length = 0 ->
            {"toLocaleString", "toString", "valueOf"}
      [] holder = "Object.prototype" /\ length = 1 ->
            {"constructor", "hasOwnProperty", "isPrototypeOf", "propertyIsEnumerable",
             "__lookupGetter__", "__lookupSetter__"}
      [] holder = "Object.prototype" /\ length = 2 ->
            {"__defineGetter__", "__defineSetter__"}
      [] holder = "Array.prototype" /\ length = 0 ->
            {"entries", "flat", "keys", "pop", "reverse", "shift", "toLocaleString",
             "toReversed", "toString", "values"}
      [] holder = "Array.prototype" /\ length = 1 ->
            {"constructor", "at", "concat", "every", "fill", "filter", "find",
             "findIndex", "findLast", "findLastIndex", "flatMap", "forEach", "includes",
             "indexOf", "join", "lastIndexOf", "map", "push", "reduce", "reduceRight",
             "some", "sort", "toSorted", "unshift"}
      [] holder = "Array.prototype" /\ length = 2 ->
            {"copyWithin", "slice", "splice", "toSpliced", "with"}
      [] holder = "String.prototype" /\ length = 0 ->
            {"big", "blink", "bold", "fixed", "isWellFormed", "italics", "normalize",
             "small", "strike", "sub", "sup", "toLocaleLowerCase", "toLocaleUpperCase",
             "toLowerCase", "toString", "toUpperCase", "toWellFormed", "trim", "trimEnd",
             "trimLeft", "trimRight", "trimStart", "valueOf"}
      [] holder = "String.prototype" /\ length = 1 ->
            {"constructor", "anchor", "at", "charAt", "charCodeAt", "codePointAt",
             "concat", "endsWith", "fontcolor", "fontsize", "includes", "indexOf",
             "lastIndexOf", "link", "localeCompare", "match", "matchAll", "padEnd",
             "padStart", "repeat", "search", "startsWith"}
      [] holder = "String.prototype" /\ length = 2 ->
            {"replace", "replaceAll", "slice", "split", "substr", "substring"}
      [] holder = "Number.prototype" /\ length = 0 -> {"toLocaleString", "valueOf"}
      [] holder = "Number.prototype" /\ length = 1 ->
            {"constructor", "toExponential", "toFixed", "toPrecision", "toString"}
      [] holder = "Function.prototype" /\ length = 0 -> {"toString"}
      [] holder = "Function.prototype" /\ length = 1 -> {"constructor", "bind", "call"}
      [] holder = "Function.prototype" /\ length = 2 -> {"apply"}
      [] holder = "Object" /\ length = 1 ->
            {"entries", "freeze", "fromEntries", "getOwnPropertyDescriptors",
             "getOwnPropertyNames", "getOwnPropertySymbols", "getPrototypeOf",
             "isExtensible", "isFrozen", "isSealed", "keys", "preventExtensions", "seal",
             "values"}
      [] holder = "Object" /\ length = 2 ->
            {"assign", "create", "defineProperties", "getOwnPropertyDescriptor", "hasOwn",
             "is", "setPrototypeOf"}
      [] holder = "Object" /\ length = 3 -> {"defineProperty"}
      [] holder = "Array" /\ length = 0 -> {"of"}
      [] holder = "Array" /\ length = 1 -> {"from", "isArray"}
      [] holder = "String" /\ length = 1 -> {"fromCharCode", "fromCodePoint", "raw"}
      [] holder = "Number" /\ length = 1 ->
            {"isFinite", "isInteger", "isNaN", "isSafeInteger", "parseFloat"}
      [] holder = "Number" /\ length = 2 -> {"parseInt"}
      [] OTHER -> {}

BuiltinLengths == 0..3

\* the object named holder holds a built-in function under key
HoldsBuiltin(holder, key) == \E length \in BuiltinLengths : key \in BuiltinKeys(holder, length)

ConstructorNames == {"Object", "Array", "String", "Number", "Function"}

\* the name of the function that holder holds under key: the key, but for
\* the constructors and for trimLeft and trimRight, which are the functions
\* trimStart and trimEnd
BuiltinName(holder, key) ==
    CASE key = "constructor" ->
            CHOOSE name \in ConstructorNames : name \o ".prototype" = holder
      [] key = "trimLeft" /\ holder = "String.prototype" -> "trimStart"
      [] key = "trimRight" /\ holder = "String.prototype" -> "trimEnd"
      [] OTHER -> key

\* the built-in function that the object named holder holds under key, such
\* as Fn("Array.prototype", "push"): a names the holder, so that the
\* functions of one name of two holders are two functions
Fn(holder, key) ==
    [t |-> "function",
     n |-> CHOOSE length \in BuiltinLengths : key \in BuiltinKeys(holder, length),
     a |-> <<Str(holder)>>, s |-> BuiltinName(holder, key), id |-> -6]

\* the constructors Object, Array, String, Number and Function
Constructor(name) == Fn(name \o ".prototype", "constructor")

\* the name under which BuiltinKeys lists the properties of v: v is a
\* prototype or a constructor, "" for any other value
Holder(v) ==
    CASE v = ObjectPrototype -> "Object.prototype"
      [] v = ArrayPrototype -> "Array.prototype"
      [] v = StringPrototype -> "String.prototype"
      [] v = NumberPrototype -> "Number.prototype"
      [] v = FunctionPrototype -> "Function.prototype"
      [] v.t = "function" /\ v.s \in ConstructorNames /\ v = Constructor(v.s) -> v.s
      [] OTHER -> ""

\* the prototype property of a constructor
PrototypeOf(name) ==
    CASE name = "Object" -> ObjectPrototype
      [] name = "Array" -> ArrayPrototype
      [] name = "String" -> StringPrototype
      [] name = "Number" -> NumberPrototype
      [] name = "Function" -> FunctionPrototype

\* the number-valued properties of the constructor Number
NumberConstants ==
    {"EPSILON", "MAX_SAFE_INTEGER", "MAX_VALUE", "MIN_SAFE_INTEGER", "MIN_VALUE",
     "NaN", "NEGATIVE_INFINITY", "POSITIVE_INFINITY"}

NumberConstant(name) ==
    CASE name = "EPSILON" -> Real("2.220446049250313e-16")
      [] name = "MAX_SAFE_INTEGER" -> Real("9007199254740991")
      [] name = "MAX_VALUE" -> Real("1.7976931348623157e+308")
      [] name = "MIN_SAFE_INTEGER" -> Real("-9007199254740991")
      [] name = "MIN_VALUE" -> Real("5e-324")
      [] name = "NaN" -> NaN
      [] name = "NEGATIVE_INFINITY" -> NegInfinity
      [] name = "POSITIVE_INFINITY" -> Infinity

\* typeof v === 'number': NaN and the infinities are numbers too
IsNumberType(v) == v.t \in {"number", "real", "NaN", "Infinity", "-Infinity"}

\* isNaN( v ) for a value of type number
IsNaN(v) == v.t = "NaN"

\* Array.isArray( v )
IsArray(v) == v.t = "array"

\* ToBoolean( v ): undefined, null, NaN, 0 and "" are falsy
Truthy(v) ==
    CASE v.t \in {"undefined", "null", "NaN"} -> FALSE
      [] v.t = "number" -> v.n # 0
      [] v.t = "string" -> v.s # ""
      [] OTHER -> TRUE

\* a === b.  NaN equals nothing, itself included; an array, an object or a
\* function equals itself only, that is the value with its content and id.
StrictEquals(a, b) == a.t # "NaN" /\ a = b

\* String( v ), the conversion a property key goes through; a number is an
\* integer that counts (an index), never a coordinate in units of 1/UVDen
RECURSIVE ToStr(_)
ToStr(v) ==
    LET RECURSIVE Joined(_)
        \* elems.join( ',' ): undefined and null elements give ""
        Joined(elems) ==
            IF elems = <<>> THEN ""
            ELSE LET first == IF Head(elems).t \in {"undefined", "null"} THEN ""
                              ELSE ToStr(Head(elems))
                 IN  IF Len(elems) = 1 THEN first
                     ELSE first \o "," \o Joined(Tail(elems))
    IN  CASE v.t = "number" -> ToString(v.n)
          [] v.t \in {"string", "real"} -> v.s
          [] v.t = "array" -> Joined(v.a)
          [] v = StringPrototype -> ""
          [] v = NumberPrototype -> "0"
          [] v.t \in {"object", "surface"} /\ v \notin {StringPrototype, NumberPrototype} ->
                "[object Object]"
          [] v.t = "function" -> "function " \o v.s \o "() { [native code] }"
          [] OTHER -> v.t

\* the character of a string at position i, from 1
CharAt(text, i) == SubSeq(text, i, i)

\* name is the canonical text of an array index: "0", or decimal digits
\* without a leading zero, of a number below 2^32 - 1
IsArrayIndex(name) ==
    LET limit == "4294967295"
        digit(c) == CHOOSE k \in 0..9 : ToString(k) = c
    IN  /\ Len(name) > 0
        /\ \A i \in 1..Len(name) : \E k \in 0..9 : ToString(k) = CharAt(name, i)
        /\ Len(name) = 1 \/ CharAt(name, 1) # "0"
        /\ \/ Len(name) < Len(limit)
           \/ /\ Len(name) = Len(limit)
              /\ \E i \in 1..Len(name) :
                    /\ SubSeq(name, 1, i - 1) = SubSeq(limit, 1, i - 1)
                    /\ digit(CharAt(name, i)) < digit(CharAt(limit, i))

\* of two array indices, a is the smaller number
IndexBefore(a, b) ==
    LET digit(c) == CHOOSE k \in 0..9 : ToString(k) = c
    IN  \/ Len(a) < Len(b)
        \/ /\ Len(a) = Len(b)
           /\ \E i \in 1..Len(a) :
                 /\ SubSeq(a, 1, i - 1) = SubSeq(b, 1, i - 1)
                 /\ digit(CharAt(a, i)) < digit(CharAt(b, i))

\* v[ i ] for an integer i: an element of an array, a character of a string,
\* undefined past their ends and on every value that has no indexed
\* properties (numbers, plain objects, functions).  Never applied to
\* undefined or null (a TypeError in JavaScript): every caller guards it.
Get(v, i) ==
    CASE v.t = "array" /\ i >= 0 /\ i < Len(v.a) -> v.a[i + 1]
      [] v.t = "string" /\ i >= 0 /\ i < Len(v.s) -> Str(CharAt(v.s, i + 1))
      [] OTHER -> Undef

\* the object a property that v does not have itself is looked up on
\* (null at the end of the chain); a string or a number is looked up as the
\* String or Number object made of it
Proto(v) ==
    IF v = ObjectPrototype THEN Null
    ELSE IF v \in {ArrayPrototype, StringPrototype, NumberPrototype, FunctionPrototype}
    THEN ObjectPrototype
    ELSE CASE v.t = "array" -> ArrayPrototype
           [] v.t = "string" -> StringPrototype
           [] IsNumberType(v) -> NumberPrototype
           [] v.t = "function" -> FunctionPrototype
           [] OTHER -> ObjectPrototype

\* the property name of v itself: an element or a character (name is the
\* canonical text of a position), the length of an array, a string or a
\* function, the name of a function, the type of a surface, the prototype
\* of a constructor, a built-in function or number; Absent without one
OwnProperty(v, name) ==
    LET size == IF v.t = "array" THEN Len(v.a) ELSE IF v.t = "string" THEN Len(v.s) ELSE 0
        holder == Holder(v)
    IN  CASE \E i \in 0..(size - 1) : ToString(i) = name ->
                Get(v, CHOOSE i \in 0..(size - 1) : ToString(i) = name)
          [] name = "length" /\ v.t \in {"array", "string"} -> Num(size)
          [] name = "length" /\ v = StringPrototype -> Num(0)
          [] name = "length" /\ v.t = "function" -> Num(v.n)
          [] name = "name" /\ v.t = "function" -> Str(v.s)
          [] name = "type" /\ v.t = "surface" -> Str(v.s)
          [] name = "prototype" /\ holder \in ConstructorNames -> PrototypeOf(holder)
          [] name \in NumberConstants /\ holder = "Number" -> NumberConstant(name)
          [] HoldsBuiltin(holder, name) -> Fn(holder, name)
          [] OTHER -> Absent

\* the property name of v, its own or the one of the nearest object of its
\* prototype chain that has one; __proto__ is the prototype
RECURSIVE Lookup(_, _)
Lookup(v, name) ==
    IF name = "__proto__" THEN Proto(v)
    ELSE IF OwnProperty(v, name) # Absent THEN OwnProperty(v, name)
    ELSE IF Proto(v) = Null THEN Undef
    ELSE Lookup(Proto(v), name)

\* reading v[ key ] raises a TypeError: v is undefined or null, or v is a
\* function and key names one of the accessors arguments and caller of
\* Function.prototype, which throw
GetThrows(v, key) ==
    \/ v.t \in {"undefined", "null"}
    \/ v.t = "function" /\ ToStr(key) \in {"arguments", "caller"}

\* v[ key ] for a key that is itself a JavaScript value: the key is converted
\* to a property name
GetByValue(v, key) ==
    IF GetThrows(v, key) THEN Thrown ELSE Lookup(v, ToStr(key))

\* v.length of an array
Length(v) == Len(v.a)

(***************************************************************************)
(* Documents and theme tables                                              *)
(*                                                                         *)
(* A document is [appearance, vt, textures]: appearance says whether the   *)
(* appearance block exists, vt is appearance['vertices-texture'] (Undef    *)
(* when absent) and textures is appearance.textures, a sequence of         *)
(* [atlasTexture, atlasRegion] entries (Undef for a property the entry     *)
(* does not declare).  A theme entry is [isObject, values, value]:         *)
(* isObject is FALSE for a null entry, values and value are the            *)
(* properties of that name (Undef when absent).                            *)
(***************************************************************************)
\* the default record with the index of the first texture
DefaultRecordIndexZero == [index |-> Num(0), uvs |-> Arr(<<Num(0), Num(0)>>)]

\* the record { index: - 1, uvs: [ 0, 0 ] }
DefaultRecord == [index |-> Num(-1), uvs |-> Arr(<<Num(0), Num(0)>>)]

\* the texture vertex table the call works on
TextureVertices(doc) ==
    IF doc.appearance /\ Truthy(doc.vt) THEN doc.vt ELSE Arr(<<>>)

\* holes.filter( v => v <= vertexIndex )
ActiveHoles(holes, vertexIndex) ==
    SelectSeq(holes, LAMBDA v : v <= vertexIndex)

\* RingId with the comparison v < vertexIndex
RingIdStrict(holes, vertexIndex) ==
    Len(SelectSeq(holes, LAMBDA v : v < vertexIndex))

\* const ringId = activeHoles.length
RingId(holes, vertexIndex) == Len(ActiveHoles(holes, vertexIndex))

VertexId(holes, vertexIndex) ==
    LET activeHoles == ActiveHoles(holes, vertexIndex)
    IN  IF Len(activeHoles) # 0
        THEN vertexIndex - activeHoles[Len(activeHoles)]
        ELSE vertexIndex

\* UvIndex without the skip of the leading texture index
UvIndexNoSkip(data, ringId, vId) == Get(Get(data, ringId), vId)

\* data[ ringId ][ vId + 1 ]
UvIndex(data, ringId, vId) == Get(Get(data, ringId), vId + 1)

\* the UV validation rejecting every entry
InvalidUvsAlways(uvs) == TRUE

\* the UV validation: ! uvs || ! Array.isArray( uvs ) || uvs.some( ... )
InvalidUvs(uvs) ==
    \/ ~Truthy(uvs)
    \/ ~IsArray(uvs)
    \/ \E i \in 1..Len(uvs.a) : ~IsNumberType(uvs.a[i]) \/ IsNaN(uvs.a[i])

(***************************************************************************)
(* Atlas remapping.  The part of getTextureData that follows the UV        *)
(* validation (the remapping of atlas sub-textures and the return of the   *)
(* resolved record) is not in BaseParser.js as given; it is modelled from  *)
(* the atlas remap rule of the specification and the atlas tests.          *)
(***************************************************************************)
UVDen == 4

\* appearance.textures has an entry at index
HasTextureEntry(doc, index) ==
    /\ doc.appearance
    /\ index.t = "number"
    /\ index.n >= 0
    /\ index.n < Len(doc.textures)

\* appearance.textures[ index ]
TextureEntry(doc, index) == doc.textures[index.n + 1]

\* the entry declares a parent atlas and a region [ x, y, w, h ], and the
\* parent is a texture of the document
IsAtlasSubTexture(doc, index) ==
    /\ HasTextureEntry(doc, index)
    /\ LET entry == TextureEntry(doc, index)
       IN  /\ IsArray(entry.atlasRegion)
           /\ Len(entry.atlasRegion.a) = 4
           /\ \A i \in 1..4 : entry.atlasRegion.a[i].t = "number"
           /\ HasTextureEntry(doc, entry.atlasTexture)

\* c * scale + offset on numbers in units of 1/UVDen
RemapComponent(c, scale, offset) ==
    CASE c.t = "number" -> Num((c.n * scale.n) \div UVDen + offset.n)
      [] c.t \in {"Infinity", "-Infinity"} /\ scale.n > 0 -> c
      [] OTHER -> NaN

\* the record returned for a vertex whose UV entry passed the validation
ResolvedRecord(doc, index, uvs) ==
    IF IsAtlasSubTexture(doc, index)
    THEN LET entry == TextureEntry(doc, index)
             region == entry.atlasRegion.a
         IN  [index |-> entry.atlasTexture,
              uvs |-> Arr(<<RemapComponent(Get(uvs, 0), region[3], region[1]),
                            RemapComponent(Get(uvs, 1), region[4], region[2])>>)]
    ELSE [index |-> index, uvs |-> uvs]

(***************************************************************************)
(* getTextureData, one theme: the callback of Object.entries( texture )    *)
(* .map.  The result is [thrown, rec, warn, path, ringId, vId, uvIndex]:   *)
(* thrown says that reading obj.values raised a TypeError, rec is the      *)
(* record returned for the theme, warn whether console.warn was called,    *)
(* path the return statement taken, and ringId, vId and uvIndex the        *)
(* locals of that name (-1 and Undef on the paths that do not compute      *)
(* them).                                                                  *)
(***************************************************************************)
ThemeOutcome(thrown, rec, warn, path, ringId, vId, uvIndex) ==
    [thrown |-> thrown, rec |-> rec, warn |-> warn, path |-> path,
     ringId |-> ringId, vId |-> vId, uvIndex |-> uvIndex]

ThemeTextureData(doc, surfaceIndex, vertexIndex, holes, obj) ==
    LET textureVertices == TextureVertices(doc)
        ringId == RingId(holes, vertexIndex)
        vId == VertexId(holes, vertexIndex)
        data == Get(obj.values, surfaceIndex)
        index == Get(Get(data, 0), 0)
        uvIndex == UvIndex(data, ringId, vId)
        uvs == GetByValue(textureVertices, uvIndex)
        fallback == [index |-> index, uvs |-> Arr(<<Num(0), Num(0)>>)]
    IN  IF ~obj.isObject
        THEN ThemeOutcome(TRUE, DefaultRecord, FALSE, "typeError", -1, -1, Undef)
        ELSE IF ~(Truthy(obj.values) /\ IsArray(obj.values) /\ Length(textureVertices) > 0)
        THEN ThemeOutcome(FALSE, DefaultRecord, Truthy(obj.values), "noValues", -1, -1, Undef)
        ELSE IF surfaceIndex >= Length(obj.values) \/ ~Truthy(data)
        THEN ThemeOutcome(FALSE, DefaultRecord, TRUE, "missingSurface", ringId, vId, Undef)
        ELSE IF ~IsArray(data) \/ ~IsArray(Get(data, 0))
        THEN ThemeOutcome(FALSE, DefaultRecord, TRUE, "invalidStructure", ringId, vId, Undef)
        ELSE IF index = Null
        THEN ThemeOutcome(FALSE, DefaultRecord, FALSE, "nullIndex", ringId, vId, Undef)
        ELSE IF ~Truthy(Get(data, ringId))
        THEN ThemeOutcome(FALSE, fallback, TRUE, "missingRing", ringId, vId, Undef)
        ELSE IF uvIndex = Undef
        THEN ThemeOutcome(FALSE, fallback, TRUE, "missingUvIndex", ringId, vId, uvIndex)
        ELSE IF InvalidUvs(uvs)
        THEN ThemeOutcome(FALSE, fallback, Truthy(uvs), "invalidUvs", ringId, vId, uvIndex)
        ELSE ThemeOutcome(FALSE, ResolvedRecord(doc, index, uvs), FALSE, "resolved",
                          ringId, vId, uvIndex)

(***************************************************************************)
(* getTextureData.  texture is [defined, themes]: defined is FALSE for an  *)
(* absent (undefined or null) texture table, themes are the entries of     *)
(* the table in key order.  The themes are resolved in order, and a        *)
(* TypeError in one of them ends the call.                                 *)
(***************************************************************************)
ThemeOutcomes(doc, surfaceIndex, vertexIndex, holes, texture) ==
    [i \in 1..Len(texture.themes) |->
        ThemeTextureData(doc, surfaceIndex, vertexIndex, holes, texture.themes[i])]

\* the themes the call got to: all of them, or those up to the first throw
Reached(outcomes) ==
    LET bad == {i \in 1..Len(outcomes) : outcomes[i].thrown}
    IN  IF bad = {} THEN outcomes
        ELSE SubSeq(outcomes, 1, CHOOSE i \in bad : \A j \in bad : i <= j)

getTextureDataTrace(doc, surfaceIndex, vertexIndex, holes, texture) ==
    IF ~texture.defined \/ ~IsArray(TextureVertices(doc))
    THEN <<>>
    ELSE Reached(ThemeOutcomes(doc, surfaceIndex, vertexIndex, holes, texture))

\* the value of the call: [kind, recs] with kind "undefined", "object"
\* (recs holds one record per theme) or "throw"
getTextureData(doc, surfaceIndex, vertexIndex, holes, texture) ==
    LET outcomes == getTextureDataTrace(doc, surfaceIndex, vertexIndex, holes, texture)
    IN  IF ~texture.defined \/ ~IsArray(TextureVertices(doc))
        THEN [kind |-> "undefined", recs |-> <<>>]
        ELSE IF \E i \in 1..Len(outcomes) : outcomes[i].thrown
        THEN [kind |-> "throw", recs |-> <<>>]
        ELSE [kind |-> "object", recs |-> [i \in 1..Len(outcomes) |-> outcomes[i].rec]]

(***************************************************************************)
(* Inputs of the texture resolution                                        *)
(***************************************************************************)
MaxPos == 5

MaxHoles == 2

\* flattened vertex positions
Positions == 0..MaxPos

\* hole-start offsets as the flattening of a boundary produces them:
\* ascending positions after the first vertex of the outer ring
HoleLists ==
    {h \in UNION {[1..n -> 1..MaxPos] : n \in 0..MaxHoles} :
        \A i \in 1..Len(h) : \A j \in 1..Len(h) : i < j => h[i] < h[j]}

Pair(u, v) == Arr(<<Num(u), Num(v)>>)

\* appearance['vertices-texture']: entries 0..4 are pairs of numbers
\* ((0,0), (1,0), (1,1), (0.5,0.5), (2,2)), entries 5..10 are malformed
UvTable ==
    Arr(<<Pair(0, 0), Pair(4, 0), Pair(4, 4), Pair(2, 2), Pair(8, 8),
          Arr(<<NaN, NaN>>), Arr(<<Infinity, Num(0)>>), Arr(<<Num(4)>>),
          Arr(<<Num(4), Num(4), Num(4)>>), Num(5), Null>>)

TexEntry(atlasTexture, atlasRegion) ==
    [atlasTexture |-> atlasTexture, atlasRegion |-> atlasRegion]

Region(x, y, w, h) == Arr(<<Num(x), Num(y), Num(w), Num(h)>>)

\* appearance.textures: 0 an atlas image, 1 and 2 sub-textures of 0 (the
\* bottom-left and top-right quadrants), 3 a sub-texture of a texture that
\* does not exist, 4 a region without a parent
Textures ==
    <<TexEntry(Undef, Undef),
      TexEntry(Num(0), Region(0, 0, 2, 2)),
      TexEntry(Num(0), Region(2, 2, 2, 2)),
      TexEntry(Num(99), Region(0, 0, 4, 4)),
      TexEntry(Undef, Region(0, 0, 2, 2))>>

Doc(appearance, vt, entries) ==
    [appearance |-> appearance, vt |-> vt, textures |-> entries]

Documents ==
    {Doc(FALSE, Undef, <<>>),
     Doc(TRUE, Undef, Textures),
     Doc(TRUE, Obj, Textures),
     Doc(TRUE, Arr(<<>>), Textures),
     Doc(TRUE, UvTable, Textures)}

\* a ring [ textureIndex, uvIndex, ... ] of numbers
Ring(index, uvIndices) ==
    Arr(<<index>> \o [i \in 1..Len(uvIndices) |-> Num(uvIndices[i])])

\* a theme's values, one entry per surface
SurfaceValues ==
    Arr(<<Arr(<<Ring(Num(0), <<0, 1, 2, 3>>), Ring(Num(0), <<3, 1>>)>>),
          Arr(<<Ring(Num(1), <<0, 2, 3, 4>>), Ring(Null, <<4, 3>>)>>),
          Arr(<<Ring(Num(2), <<2, 3>>)>>),
          Arr(<<Ring(Num(3), <<0, 1, 2>>)>>),
          Arr(<<Ring(Num(4), <<1, 2>>)>>),
          Arr(<<Ring(Num(0), <<5, 6, 7, 8, 9, 10>>)>>),
          Arr(<<Arr(<<Num(1), Num(5), Num(99), Null, Num(7)>>)>>),
          Arr(<<Arr(<<Null>>)>>),
          Null,
          Num(5),
          Arr(<<Num(5)>>),
          Arr(<<Arr(<<>>)>>),
          Arr(<<Ring(Num(9), <<0, 1>>)>>)>>)

SurfaceIndices == -1..Len(SurfaceValues.a)

Theme(values) == [isObject |-> TRUE, values |-> values, value |-> Undef]

NullTheme == [isObject |-> FALSE, values |-> Undef, value |-> Undef]

GoodTheme == Theme(SurfaceValues)

TextureTable(themes) == [defined |-> TRUE, themes |-> themes]

NoTextureTable == [defined |-> FALSE, themes |-> <<>>]

TextureTables ==
    {NoTextureTable,
     TextureTable(<<>>),
     TextureTable(<<GoodTheme>>),
     TextureTable(<<NullTheme>>),
     TextureTable(<<Theme(Undef)>>),
     TextureTable(<<Theme(Str("not an array"))>>),
     TextureTable(<<Theme(Arr(<<>>))>>),
     TextureTable(<<GoodTheme, NullTheme>>),
     TextureTable(<<Theme(Undef), GoodTheme>>)}

(***************************************************************************)
(* The parser and its operations                                           *)
(***************************************************************************)
NoCall == [op |-> "none"]

NoReturn == [kind |-> "none", recs |-> <<>>]

\* new BaseParser( json, objectIds, objectColors ) on a document
InitTexture ==
    /\ json \in Documents
    /\ objectIds = <<>>
    /\ objectColors = <<>>
    /\ surfaceColors = <<>>
    /\ lods = <<>>
    /\ pc = "ready"
    /\ args = NoCall
    /\ ret = NoReturn
    /\ trace = <<>>
    /\ OthersIdle

GetTextureData(surfaceIndex, vertexIndex, holes, texture) ==
    /\ pc' = "returned"
    /\ args' = [op |-> "getTextureData", surfaceIndex |-> surfaceIndex,
                vertexIndex |-> vertexIndex, holes |-> holes, texture |-> texture]
    /\ ret' = getTextureData(json, surfaceIndex, vertexIndex, holes, texture)
    /\ trace' = getTextureDataTrace(json, surfaceIndex, vertexIndex, holes, texture)
    /\ UNCHANGED <<json, objectIds, objectColors, surfaceColors, lods>>
    /\ UNCHANGED others

\* one call on a freshly constructed parser: the call reads the document and
\* writes nothing, so a second call would see what the first one saw
NextTexture ==
    /\ pc = "ready"
    /\ \E surfaceIndex \in SurfaceIndices, vertexIndex \in Positions,
          holes \in HoleLists, texture \in TextureTables :
            GetTextureData(surfaceIndex, vertexIndex, holes, texture)

SpecTexture == InitTexture /\ [][NextTexture]_vars

(***************************************************************************)
(* getSurfaceMaterials.  material is [defined, themes] like a texture      *)
(* table; the value is [kind, recs] with one JavaScript value per theme.   *)
(***************************************************************************)
\* the callback of Object.entries( material ).map for a theme entry that is
\* an object: obj.values is tested for truth and read at idx whatever it is
ThemeMaterial(idx, obj) ==
    IF Truthy(obj.values) THEN Get(obj.values, idx)
    ELSE IF obj.value # Undef THEN obj.value
    ELSE Num(-1)

\* getSurfaceMaterials( idx, material ): reading obj.values of a null theme
\* entry raises a TypeError that leaves the call
getSurfaceMaterials(idx, material) ==
    IF ~material.defined
    THEN [kind |-> "object", recs |-> <<>>]
    ELSE IF \E i \in 1..Len(material.themes) : ~material.themes[i].isObject
    THEN [kind |-> "throw", recs |-> <<>>]
    ELSE [kind |-> "object",
          recs |-> [i \in 1..Len(material.themes) |-> ThemeMaterial(idx, material.themes[i])]]

(***************************************************************************)
(* Inputs of the material lookup                                           *)
(***************************************************************************)
MaxThemes == 2

MaterialTheme(values, value) == [isObject |-> TRUE, values |-> values, value |-> value]

\* per-surface material indices; the third surface has no material
MaterialValues == Arr(<<Num(5), Num(0), Null>>)

\* the theme entries: objects with a values array (with and without a scalar
\* value beside it), with values that is not an array (null, the numbers 5
\* and 0, a string), with a scalar value only (0 and null included), with
\* neither, and the null entry (reading obj.values of it raises the
\* TypeError)
MaterialThemes ==
    {MaterialTheme(MaterialValues, Undef),
     MaterialTheme(Arr(<<>>), Undef),
     MaterialTheme(MaterialValues, Num(7)),
     MaterialTheme(Null, Num(2)),
     MaterialTheme(Num(5), Num(3)),
     MaterialTheme(Num(0), Num(4)),
     MaterialTheme(Str("ab"), Undef),
     MaterialTheme(Undef, Num(3)),
     MaterialTheme(Undef, Num(0)),
     MaterialTheme(Undef, Null),
     MaterialTheme(Undef, Undef),
     NullTheme}

MaterialTables ==
    {NoTextureTable} \cup
    {TextureTable(themes) : themes \in UNION {[1..n -> MaterialThemes] : n \in 0..MaxThemes}}

MaterialIndices == -1..Len(MaterialValues.a)

InitMaterial ==
    /\ json \in Documents
    /\ objectIds = <<>>
    /\ objectColors = <<>>
    /\ surfaceColors = <<>>
    /\ lods = <<>>
    /\ pc = "ready"
    /\ args = NoCall
    /\ ret = NoReturn
    /\ trace = <<>>
    /\ OthersIdle

GetSurfaceMaterials(idx, material) ==
    /\ pc' = "returned"
    /\ args' = [op |-> "getSurfaceMaterials", idx |-> idx, material |-> material]
    /\ ret' = getSurfaceMaterials(idx, material)
    /\ UNCHANGED <<json, objectIds, objectColors, surfaceColors, lods, trace>>
    /\ UNCHANGED others

\* one call on a freshly constructed parser: the call reads its arguments only
NextMaterial ==
    /\ pc = "ready"
    /\ \E idx \in MaterialIndices, material \in MaterialTables :
            GetSurfaceMaterials(idx, material)

SpecMaterial == InitMaterial /\ [][NextMaterial]_vars

(***************************************************************************)
(* The index registries.  objectIds is the list of object identifiers the  *)
(* parser was constructed with.  objectColors and surfaceColors are        *)
(* objects used as ordered maps: sequences of [key, color] in the order    *)
(* Object.keys lists them: the keys that are array indices first, by       *)
(* their number, then the others in the order of their insertion.  lods is *)
(* the array of LOD labels.                                                *)
(***************************************************************************)
\* seq.indexOf( x ) on an array of JavaScript values: the 0-based position
\* of the first element strictly equal to x
IndexOf(seq, x) ==
    IF \E i \in 1..Len(seq) : StrictEquals(seq[i], x)
    THEN (CHOOSE i \in 1..Len(seq) :
            StrictEquals(seq[i], x) /\ \A j \in 1..(i - 1) : ~StrictEquals(seq[j], x)) - 1
    ELSE -1

\* a list of strings as an array of JavaScript values
Strs(seq) == [i \in 1..Len(seq) |-> Str(seq[i])]

\* Object.keys( map )
Keys(map) == [i \in 1..Len(map) |-> map[i].key]

\* map[ key ] = color: the value of a key the map has is replaced where it
\* is, a new array index goes before the larger indices and the other keys,
\* any other new key goes to the end, and __proto__ is no key at all (the
\* assignment of a number to it is ignored)
WithKey(map, key, color) ==
    LET entry == [key |-> key, color |-> color]
        behind == {i \in 1..Len(map) :
                      ~IsArrayIndex(map[i].key) \/ IndexBefore(key, map[i].key)}
        at == IF behind = {} THEN Len(map) + 1
              ELSE CHOOSE i \in behind : \A j \in behind : i <= j
    IN  IF key = "__proto__" THEN map
        ELSE IF \E i \in 1..Len(map) : map[i].key = key
        THEN [i \in 1..Len(map) |-> IF map[i].key = key THEN entry ELSE map[i]]
        ELSE IF IsArrayIndex(key)
        THEN SubSeq(map, 1, at - 1) \o <<entry>> \o SubSeq(map, at, Len(map))
        ELSE Append(map, entry)

\* getObjectTypeIdx and the inner part of getSurfaceTypeIdx, for a type name
\* that is a JavaScript value (undefined for a surface without a type): the
\* index the name gets, and the map after the call
InternedIndex(map, name) ==
    IF IndexOf(Strs(Keys(map)), name) < 0 THEN Len(map)
    ELSE IndexOf(Strs(Keys(map)), name)

InternedMap(map, name, color) ==
    IF IndexOf(Strs(Keys(map)), name) < 0 THEN WithKey(map, ToStr(name), color)
    ELSE map

\* the surface the semantics of boundary idx name: surfaces[ semantics[ idx ] ]
SemanticSurface(idx, semantics, surfaces) ==
    GetByValue(surfaces, Get(semantics, idx))

\* surface.type
SurfaceType(surface) == GetByValue(surface, Str("type"))

\* the value of getLodIndex( lod )
LodIndex(lodList, lod) ==
    IF lod = Undef THEN -1
    ELSE IF IndexOf(lodList, lod) < 0 THEN Len(lodList)
    ELSE IndexOf(lodList, lod)

\* this.lods after getLodIndex( lod ), pushing a label a second time
LodsAfterAlwaysPush(lodList, lod) ==
    IF lod = Undef THEN lodList ELSE Append(lodList, lod)

\* this.lods after getLodIndex( lod )
LodsAfter(lodList, lod) ==
    IF lod # Undef /\ IndexOf(lodList, lod) < 0 THEN Append(lodList, lod) ELSE lodList

(***************************************************************************)
(* Inputs of the registries                                                *)
(***************************************************************************)
MaxColor == 1

\* Math.floor( Math.random() * 0xffffff ), cut to a few colors
Colors == 0..MaxColor

ObjectIdList == <<"id-a", "id-b">>

ObjectIdArgs == {"id-a", "id-b", "id-x"}

\* type names of city objects; "7" is a name that is an array index
TypeNames == {"Building", "7"}

Seeded(key) == [key |-> key, color |-> 0]

\* the color maps a caller may pass in: empty or with default colors
InitialObjectColors == {<<>>, <<Seeded("Building")>>}

\* defaultSemanticsColors is imported from defaults/colors.js, whose content
\* is not part of the sources at hand: any of these maps
InitialSurfaceColors == {<<>>, <<Seeded("GroundSurface"), Seeded("WallSurface")>>}

\* the surfaces of a semantics object
SemanticSurfaces ==
    Arr(<<Surface("WallSurface"), Surface("RoofSurface")>>)

\* the values of a semantics object, one per boundary: an index into the
\* surfaces or null
SemanticValues ==
    {<<>>, <<Num(1), Null, Num(0)>>}

BoundaryIndices == 0..2

\* LOD labels; Undef is the absent label
LodArgs == {Undef, Str("1"), Num(1)}

Init ==
    /\ json = Doc(FALSE, Undef, <<>>)
    /\ objectIds = ObjectIdList
    /\ objectColors \in InitialObjectColors
    /\ surfaceColors \in InitialSurfaceColors
    /\ lods = <<>>
    /\ pc = "ready"
    /\ args = NoCall
    /\ ret = NoReturn
    /\ trace = <<>>
    /\ OthersIdle

GetObjectIdx(objectId) ==
    /\ args' = [op |-> "getObjectIdx", key |-> objectId]
    /\ ret' = IndexOf(Strs(objectIds), Str(objectId))
    /\ UNCHANGED <<json, objectIds, objectColors, surfaceColors, lods, pc, trace>>
    /\ UNCHANGED others

GetObjectTypeIdx(cityObjectTypeName, color) ==
    /\ args' = [op |-> "getObjectTypeIdx", key |-> cityObjectTypeName]
    /\ ret' = InternedIndex(objectColors, Str(cityObjectTypeName))
    /\ objectColors' = InternedMap(objectColors, Str(cityObjectTypeName), color)
    /\ UNCHANGED <<json, objectIds, surfaceColors, lods, pc, trace>>
    /\ UNCHANGED others

\* args.thrown says whether reading the surface raised a TypeError, which
\* ends the call, args.found whether the boundary has a surface, args.key is
\* the property key of the type of that surface
GetSurfaceTypeIdx(idx, semantics, surfaces, color) ==
    LET surface == SemanticSurface(idx, Arr(semantics), surfaces)
        thrown == Len(semantics) > 0 /\ surface = Thrown
        found == Len(semantics) > 0 /\ ~thrown /\ Truthy(surface)
        type == SurfaceType(surface)
    IN  /\ args' = [op |-> "getSurfaceTypeIdx", idx |-> idx, semantics |-> semantics,
                    thrown |-> thrown, found |-> found,
                    key |-> IF found THEN ToStr(type) ELSE ""]
        /\ ret' = IF thrown THEN [kind |-> "throw", recs |-> <<>>]
                  ELSE IF found THEN InternedIndex(surfaceColors, type) ELSE -1
        /\ surfaceColors' = IF found THEN InternedMap(surfaceColors, type, color)
                            ELSE surfaceColors
        /\ UNCHANGED <<json, objectIds, objectColors, lods, pc, trace>>
        /\ UNCHANGED others

GetLodIndex(lod) ==
    /\ args' = [op |-> "getLodIndex", key |-> lod]
    /\ ret' = LodIndex(lods, lod)
    /\ lods' = LodsAfter(lods, lod)
    /\ UNCHANGED <<json, objectIds, objectColors, surfaceColors, pc, trace>>
    /\ UNCHANGED others

Next ==
    \/ \E objectId \in ObjectIdArgs : GetObjectIdx(objectId)
    \/ \E name \in TypeNames, color \in Colors : GetObjectTypeIdx(name, color)
    \/ \E idx \in BoundaryIndices, semantics \in SemanticValues, color \in Colors :
            GetSurfaceTypeIdx(idx, semantics, SemanticSurfaces, color)
    \/ \E lod \in LodArgs : GetLodIndex(lod)

Spec == Init /\ [][Next]_vars

(***************************************************************************)
(* Two parsers constructed separately over the same module.  Each gets the *)
(* objectColors its caller passes (here: one object per parser) and makes  *)
(* its own lods array; this.surfaceColors is, in both, the one object      *)
(* defaultSemanticsColors that the module imports (constructor, line 11).  *)
(* The variables objectColors and lods are those of the first parser, peer *)
(* holds those of the second, surfaceColors is the imported object.        *)
(***************************************************************************)
Sessions == {1, 2}

\* this.surfaceColors of a parser: the imported object itself, never a copy
SurfaceColorsOf(session) == surfaceColors

\* this.objectColors of a parser
ObjectColorsOf(session) == IF session = 1 THEN objectColors ELSE peer.objectColors

\* this.lods of a parser
LodsOf(session) == IF session = 1 THEN lods ELSE peer.lods

InitSessions ==
    /\ json = Doc(FALSE, Undef, <<>>)
    /\ objectIds = ObjectIdList
    /\ objectColors \in InitialObjectColors
    /\ surfaceColors \in InitialSurfaceColors
    /\ lods = <<>>
    /\ pc = "ready"
    /\ args = NoCall
    /\ ret = NoReturn
    /\ trace = <<>>
    /\ peer \in [objectColors : InitialObjectColors, lods : {<<>>}]
    /\ BeyondParsersIdle

PeerGetObjectTypeIdx(cityObjectTypeName, color) ==
    /\ args' = [op |-> "getObjectTypeIdx", key |-> cityObjectTypeName, session |-> 2]
    /\ ret' = InternedIndex(peer.objectColors, Str(cityObjectTypeName))
    /\ peer' = [peer EXCEPT
                  !.objectColors = InternedMap(peer.objectColors,
                                               Str(cityObjectTypeName), color)]
    /\ UNCHANGED <<json, objectIds, objectColors, surfaceColors, lods, pc, trace>>
    /\ UNCHANGED beyondParsers

PeerGetSurfaceTypeIdx(idx, semantics, surfaces, color) ==
    LET surface == SemanticSurface(idx, Arr(semantics), surfaces)
        thrown == Len(semantics) > 0 /\ surface = Thrown
        found == Len(semantics) > 0 /\ ~thrown /\ Truthy(surface)
        type == SurfaceType(surface)
    IN  /\ args' = [op |-> "getSurfaceTypeIdx", idx |-> idx, semantics |-> semantics,
                    thrown |-> thrown, found |-> found,
                    key |-> IF found THEN ToStr(type) ELSE "", session |-> 2]
        /\ ret' = IF thrown THEN [kind |-> "throw", recs |-> <<>>]
                  ELSE IF found THEN InternedIndex(SurfaceColorsOf(2), type) ELSE -1
        /\ surfaceColors' = IF found THEN InternedMap(SurfaceColorsOf(2), type, color)
                            ELSE surfaceColors
        /\ UNCHANGED <<json, objectIds, objectColors, lods, pc, trace, peer>>
        /\ UNCHANGED beyondParsers

PeerGetLodIndex(lod) ==
    /\ args' = [op |-> "getLodIndex", key |-> lod, session |-> 2]
    /\ ret' = LodIndex(peer.lods, lod)
    /\ peer' = [peer EXCEPT !.lods = LodsAfter(peer.lods, lod)]
    /\ UNCHANGED <<json, objectIds, objectColors, surfaceColors, lods, pc, trace>>
    /\ UNCHANGED beyondParsers

\* the semantics of the calls of either parser: the first boundary names
\* the second surface
SessionSemantics == <<Num(1), Null, Num(0)>>

SessionLods == {Str("1"), Num(1)}

NextSessions ==
    \/ \E name \in TypeNames : GetObjectTypeIdx(name, 0)
    \/ \E idx \in BoundaryIndices :
            GetSurfaceTypeIdx(idx, SessionSemantics, SemanticSurfaces, 0)
    \/ \E lod \in SessionLods : GetLodIndex(lod)
    \/ \E name \in TypeNames : PeerGetObjectTypeIdx(name, 0)
    \/ \E idx \in BoundaryIndices :
            PeerGetSurfaceTypeIdx(idx, SessionSemantics, SemanticSurfaces, 0)
    \/ \E lod \in SessionLods : PeerGetLodIndex(lod)

SpecSessions == InitSessions /\ [][NextSessions]_vars

(***************************************************************************)
(* The chunked orchestrator.  The sources at hand do not hold it; this is  *)
(* the orchestrator the specification describes: it drives the parsers     *)
(* over the object collection in batches of batchSize objects, appends the *)
(* records of each object to the buffer of the batch, emits the buffer     *)
(* with a chunk-complete notification at the end of the batch and yields;  *)
(* when resumed it looks at the stop request before it starts a batch.     *)
(* An object is modelled by the number of its geometries, a record by      *)
(* [object, geometry].  args holds the collection and the batch size,      *)
(* cursor the number of objects parsed, buffer the records of the batch in *)
(* progress, chunks the buffers notified so far.  pc is "yielded" between   *)
(* two batches, "batch" within one, "done" after the last chunk and        *)
(* "stopped" after a stop.                                                 *)
(***************************************************************************)
MaxObjects == 4

MaxBatch == 3

GeometryCounts == {0, 1, 2}

ObjectCollections == UNION {[1..n -> GeometryCounts] : n \in 0..MaxObjects}

BatchSizes == 1..MaxBatch

\* the records the parsers append for object number i (from 1)
ObjectRecords(objects, i) ==
    [g \in 1..objects[i] |-> [object |-> i, geometry |-> g]]

\* the blocking mode: every object in turn, nothing notified in between
RECURSIVE BlockingParse(_, _)
BlockingParse(objects, n) ==
    IF n = 0 THEN <<>> ELSE BlockingParse(objects, n - 1) \o ObjectRecords(objects, n)

\* the batch in progress is complete: batchSize objects since the last
\* notified chunk, or no object left
BatchCompleteLate(objects, batchSize, parsed, emitted) ==
    parsed = Len(objects) \/ parsed - emitted * batchSize = batchSize + 1

BatchComplete(objects, batchSize, parsed, emitted) ==
    parsed = Len(objects) \/ parsed - emitted * batchSize = batchSize

InitOrchestrator ==
    /\ json = Doc(FALSE, Undef, <<>>)
    /\ objectIds = <<>>
    /\ objectColors = <<>>
    /\ surfaceColors = <<>>
    /\ lods = <<>>
    /\ trace = <<>>
    /\ peer = NoPeer
    /\ ret = NoReturn
    /\ \E objects \in ObjectCollections, batchSize \in BatchSizes :
            /\ args = [op |-> "parse", objects |-> objects, batchSize |-> batchSize]
            /\ pc = IF Len(objects) = 0 THEN "done" ELSE "yielded"
    /\ OrchestratorIdle
    /\ ManagerIdle

\* an orchestrator that is resumed without a look at the stop request
ResumeIgnoringStop ==
    /\ pc = "yielded"
    /\ pc' = "batch"
    /\ UNCHANGED <<args, ret, parserVars, tmVars, orchVars>>

\* the orchestrator is resumed: it stops if asked to, else starts a batch
Resume ==
    /\ pc = "yielded"
    /\ pc' = IF stopRequested THEN "stopped" ELSE "batch"
    /\ UNCHANGED <<args, ret, parserVars, tmVars, orchVars>>

\* one more object of the batch in progress
ParseObject ==
    /\ pc = "batch"
    /\ ~BatchComplete(args.objects, args.batchSize, cursor, Len(chunks))
    /\ cursor' = cursor + 1
    /\ buffer' = buffer \o ObjectRecords(args.objects, cursor + 1)
    /\ UNCHANGED <<pc, args, ret, parserVars, tmVars, chunks, stopRequested>>

\* the end of a batch: the chunk-complete notification with the buffer
EmitChunk ==
    /\ pc = "batch"
    /\ BatchComplete(args.objects, args.batchSize, cursor, Len(chunks))
    /\ chunks' = Append(chunks, buffer)
    /\ buffer' = <<>>
    /\ pc' = IF cursor = Len(args.objects) THEN "done" ELSE "yielded"
    /\ UNCHANGED <<args, ret, parserVars, tmVars, cursor, stopRequested>>

\* the host asks the orchestrator to stop, at any moment of a run
RequestStop ==
    /\ pc \in {"yielded", "batch"}
    /\ ~stopRequested
    /\ stopRequested' = TRUE
    /\ UNCHANGED <<pc, args, ret, parserVars, tmVars, cursor, buffer, chunks>>

NextOrchestrator ==
    \/ Resume
    \/ ParseObject
    \/ EmitChunk
    \/ RequestStop

SpecOrchestrator == InitOrchestrator /\ [][NextOrchestrator]_vars

(***************************************************************************)
(* The texture manager (src/src/helpers/TextureManager.js).  A texture is  *)
(* [id, name, image, cloneOf, wrap]: id tells the objects apart, name is   *)
(* its name ('placeholder', 'fallback', the name of an uploaded file, ''   *)
(* for what a loader delivers), image the URL or file its image comes      *)
(* from, cloneOf the id of the texture it was cloned from (-1 for none)    *)
(* and wrap the value of wrapS and wrapT, which the code always sets       *)
(* together.  A material is [id, cityTexture, uniforms, dispose]:          *)
(* uniforms says whether it has uniforms.cityTexture, cityTexture is the   *)
(* value of that uniform and dispose says whether it has a dispose method. *)
(* The base material is the caller's: one object for the life of the       *)
(* manager, with the id -1, either the plain object the tests pass or a    *)
(* CityObjectsMaterial; the entries of this.materials that are the base    *)
(* material are that object, and hold what baseMaterial holds.             *)
(* cityTextures is                                                         *)
(* appearance.textures, a list of entries [image, wrapMode, atlasTexture]  *)
(* ("" for an entry without wrapMode, -1 for one without atlasTexture).  A *)
(* load in flight is [kind, i, url, id]: a loader.load call ("url") for    *)
(* slot i, the FileReader reading an uploaded file ("file"), the image     *)
(* that decodes what the reader has read ("img") or the loader of          *)
(* compressed textures loading an uploaded file ("compressed"), id being   *)
(* the id of the texture it delivers.                                      *)
(***************************************************************************)
MaxCalls == 2

PlaceholderId == 0

\* new CityObjectsMaterial( ... ) whose cityTexture uniform holds texture
CityObjectsMaterial(id, texture) ==
    [id |-> id, cityTexture |-> texture, uniforms |-> TRUE, dispose |-> TRUE]

\* the materials a caller passes as baseMaterial
BaseMaterials == {PlainObject, CityObjectsMaterial(PlainObject.id, NoTexture)}

\* mat === baseMaterial
IsBaseMaterial(mat) == mat.id = PlainObject.id

\* an entry of appearance.textures
CityTexture(image, wrapMode, atlasTexture) ==
    [image |-> image, wrapMode |-> wrapMode, atlasTexture |-> atlasTexture]

\* an entry with an image and nothing else
Image(url) == CityTexture(url, "", -1)

\* wrapS and wrapT of a new Texture or DataTexture
DefaultWrapping == "ClampToEdgeWrapping"

\* createPlaceholderTexture().clone() with name 'placeholder'
Placeholder(id) ==
    [id |-> id, name |-> "placeholder", image |-> "", cloneOf |-> PlaceholderId,
     wrap |-> DefaultWrapping]

\* the texture a loader hands to its onLoad callback
Loaded(id, url) ==
    [id |-> id, name |-> "", image |-> url, cloneOf |-> -1, wrap |-> DefaultWrapping]

\* the 1x1 DataTexture of the error callback
Fallback(id) ==
    [id |-> id, name |-> "fallback", image |-> "", cloneOf |-> -1, wrap |-> DefaultWrapping]

\* new Texture( img ) named after the uploaded file
Master(id, fileName) ==
    [id |-> id, name |-> fileName, image |-> fileName, cloneOf |-> -1,
     wrap |-> DefaultWrapping]

\* tex.clone(): a new object with the name and the image of tex
Clone(tex, id) == [tex EXCEPT !.id = id, !.cloneOf = tex.id]

\* a slot or cache entry is truthy
HasTexture(tex) == tex # NoTexture

\* texture.image.includes( file.name ) on Urls and FileNames
Includes(image, fileName) ==
    image = fileName \/ (image = "tex/a.png" /\ fileName = "a.png")

\* _configureTexture: the wrapping of a wrapMode string
WrappingOf(wrapModeStr) ==
    CASE wrapModeStr = "mirror" -> "MirroredRepeatWrapping"
      [] wrapModeStr \in {"clamp", "border", "none"} -> "ClampToEdgeWrapping"
      [] OTHER -> "RepeatWrapping"

\* _configureTexture: ( cityTexture && cityTexture.wrapMode ) ?
\* cityTexture.wrapMode : "wrap", for cityTexture = list[ i ]
WrapModeStr(list, i) ==
    IF i < Len(list) /\ list[i + 1].wrapMode # "" THEN list[i + 1].wrapMode ELSE "wrap"

\* _configureTexture that takes the wrapMode of the first entry for every slot
ConfigureTextureAsFirst(list, tex, i) ==
    [tex EXCEPT !.wrap = WrappingOf(WrapModeStr(list, 0))]

\* _configureTexture( tex, i ) with this.cityTextures = list: wrapS and wrapT
ConfigureTexture(list, tex, i) ==
    [tex EXCEPT !.wrap = WrappingOf(WrapModeStr(list, i))]

\* the manager as one value, for the methods that call one another
Manager ==
    [cityTextures |-> cityTextures, textures |-> textures, materials |-> materials,
     textureCache |-> textureCache, needsUpdate |-> needsUpdate, pending |-> pending,
     disposed |-> disposed, nextId |-> nextId, loaderCalls |-> loaderCalls,
     baseMaterial |-> baseMaterial, options |-> options]

\* the manager is m after the step
Becomes(m) ==
    /\ cityTextures' = m.cityTextures
    /\ textures' = m.textures
    /\ materials' = m.materials
    /\ textureCache' = m.textureCache
    /\ needsUpdate' = m.needsUpdate
    /\ pending' = m.pending
    /\ disposed' = m.disposed
    /\ nextId' = m.nextId
    /\ loaderCalls' = m.loaderCalls
    /\ baseMaterial' = m.baseMaterial
    /\ options' = m.options

\* _updateMaterialTexture( index, texture ) on the list this.materials: the
\* entry must exist and have a cityTexture uniform; the write shows at
\* every position of the list that holds the same object
UpdateMaterialTexture(list, index, texture) ==
    IF index < Len(list) /\ list[index + 1].uniforms
    THEN [n \in 1..Len(list) |->
            IF list[n].id = list[index + 1].id
            THEN [list[n] EXCEPT !.cityTexture = texture]
            ELSE list[n]]
    ELSE list

\* this.textures[ i ] = tex followed by _updateMaterialTexture( i, tex ),
\* whose write is to the caller's base material where that stands at i
WithSlot(m, i, tex) ==
    LET list == UpdateMaterialTexture(m.materials, i, tex)
    IN  [m EXCEPT !.textures[i] = tex,
                  !.materials = list,
                  !.baseMaterial = IF i < Len(list) /\ IsBaseMaterial(list[i + 1])
                                   THEN list[i + 1]
                                   ELSE m.baseMaterial]

\* a load in flight
Load(kind, i, url, id) == [kind |-> kind, i |-> i, url |-> url, id |-> id]

\* setTextureFromUrl: if ( this.textureCache[ url ] )
CacheHit(m, url) == HasTexture(m.textureCache[url])

\* setTextureFromUrl( i, url ) up to its return: a clone of the cached
\* texture, or a placeholder and a call of loader.load
setTextureFromUrl(m, i, url) ==
    IF CacheHit(m, url)
    THEN [WithSlot(m, i, ConfigureTexture(m.cityTextures,
                                          Clone(m.textureCache[url], m.nextId), i)) EXCEPT
            !.needsUpdate = TRUE,
            !.nextId = m.nextId + 1]
    ELSE [WithSlot(m, i, ConfigureTexture(m.cityTextures, Placeholder(m.nextId), i)) EXCEPT
            !.needsUpdate = TRUE,
            !.pending = m.pending \cup {Load("url", i, url, m.nextId + 1)},
            !.loaderCalls = Append(m.loaderCalls, url),
            !.nextId = m.nextId + 2]

\* the loop of loadFromUrl over the first n entries of cityTextures
RECURSIVE LoadEntries(_, _)
LoadEntries(m, n) ==
    IF n = 0 THEN m
    ELSE setTextureFromUrl(LoadEntries(m, n - 1), n - 1, m.cityTextures[n].image)

\* loadFromUrl(): the slots and the cache are emptied, then every entry is
\* requested
loadFromUrl(m) ==
    LoadEntries([m EXCEPT !.textures = [i \in Slots |-> NoTexture],
                          !.textureCache = [key \in Urls |-> NoTexture],
                          !.loaderCalls = <<>>],
                Len(m.cityTextures))

\* the onLoad callback of setTextureFromUrl for a load in flight
onLoad(m, load) ==
    LET loadedTex == ConfigureTexture(m.cityTextures, Loaded(load.id, load.url), load.i)
    IN  [WithSlot(m, load.i, loadedTex) EXCEPT
            !.textureCache[load.url] = loadedTex,
            !.needsUpdate = TRUE,
            !.pending = m.pending \ {load}]

\* an error callback that leaves the placeholder in the slot
onErrorKeepingSlot(m, load) ==
    [m EXCEPT !.textureCache[load.url] = NoTexture,
              !.needsUpdate = TRUE,
              !.pending = m.pending \ {load}]

\* the error callback of setTextureFromUrl for a load in flight
onError(m, load) ==
    [WithSlot(m, load.i, Fallback(load.id)) EXCEPT
        !.textureCache[load.url] = NoTexture,
        !.needsUpdate = TRUE,
        !.pending = m.pending \ {load}]

\* the URL setTextureFromUrl is called with after the construction: the URL
\* of a slot of every document, and not that of the first slot of one of them
RequestUrls == {"a.png"}

\* the image lists of the documents: none, one image, one compressed
\* texture, two images that share a URL, two apart (which the uploaded file
\* a.png matches both)
TextureLists ==
    {<<>>, <<Image("a.png")>>, <<Image("a.ktx2")>>, <<Image("a.png"), Image("a.png")>>,
     <<Image("tex/a.png"), Image("a.png")>>}

\* new TextureManager( citymodel, options ) up to the end of the constructor
Constructed(list, opts) ==
    loadFromUrl([cityTextures |-> list,
                 textures |-> [i \in Slots |-> NoTexture],
                 materials |-> <<>>,
                 textureCache |-> [key \in Urls |-> NoTexture],
                 needsUpdate |-> FALSE,
                 pending |-> {},
                 disposed |-> {},
                 nextId |-> 1,
                 loaderCalls |-> <<>>,
                 baseMaterial |-> PlainObject,
                 options |-> opts])

\* getMaterials rebuilds the list
Rebuilds(m) == Len(m.materials) = 0 \/ m.needsUpdate

\* the list getMaterials builds: a new material for a slot with a texture,
\* the base material for a slot without
BuiltMaterials(m) ==
    [n \in 1..Len(m.cityTextures) |->
        IF HasTexture(m.textures[n - 1])
        THEN CityObjectsMaterial(m.nextId + n - 1, m.textures[n - 1])
        ELSE m.baseMaterial]

\* the materials of a list on which a rebuild calls dispose()
DisposedByRebuild(list) ==
    {list[n].id : n \in {k \in 1..Len(list) : ~IsBaseMaterial(list[k])}}

\* getMaterials that builds a new list at every call
getMaterialsAlwaysRebuilding(m) ==
    [m EXCEPT !.materials = BuiltMaterials(m),
              !.disposed = m.disposed \cup DisposedByRebuild(m.materials),
              !.needsUpdate = FALSE,
              !.nextId = m.nextId + Len(m.cityTextures)]

\* getMaterials( baseMaterial ): the manager after the call
getMaterials(m) ==
    IF Rebuilds(m)
    THEN [m EXCEPT !.materials = BuiltMaterials(m),
                   !.disposed = m.disposed \cup DisposedByRebuild(m.materials),
                   !.needsUpdate = FALSE,
                   !.nextId = m.nextId + Len(m.cityTextures)]
    ELSE m

\* dispose() ends with a TypeError: an entry of this.materials has no
\* dispose method (mat.dispose is not a function)
DisposeThrows(m) == \E n \in 1..Len(m.materials) : ~m.materials[n].dispose

\* dispose(): the manager after the call.  The loop over this.materials
\* stops at the first entry without a dispose method, and the list is then
\* left as it is.
dispose(m) ==
    LET reached == {n \in 1..Len(m.materials) :
                      \A k \in 1..n : m.materials[k].dispose}
    IN  [m EXCEPT !.disposed = m.disposed
                        \cup {m.textures[i].id :
                                i \in {j \in Slots : HasTexture(m.textures[j])}}
                        \cup {PlaceholderId}
                        \cup {m.materials[n].id : n \in reached},
                  !.textures = [i \in Slots |-> NoTexture],
                  !.textureCache = [key \in Urls |-> NoTexture],
                  !.materials = IF DisposeThrows(m) THEN m.materials ELSE <<>>,
                  !.loaderCalls = <<>>]

\* the entries of cityTextures an uploaded file matches, as slots
Matching(m, fileName) ==
    {j \in 0..(Len(m.cityTextures) - 1) : Includes(m.cityTextures[j + 1].image, fileName)}

\* the loops of setTextureFromFile over the first n entries of cityTextures:
\* every matching slot gets a clone of tex
RECURSIVE AssignClones(_, _, _, _)
AssignClones(m, fileName, n, tex) ==
    IF n = 0 THEN m
    ELSE LET before == AssignClones(m, fileName, n - 1, tex)
         IN  IF (n - 1) \in Matching(m, fileName)
             THEN [WithSlot(before, n - 1,
                            ConfigureTexture(m.cityTextures, Clone(tex, before.nextId), n - 1))
                        EXCEPT !.nextId = before.nextId + 1]
             ELSE before

\* this.placeholderTexture
PlaceholderTexture ==
    [id |-> PlaceholderId, name |-> "placeholder", image |-> "", cloneOf |-> -1,
     wrap |-> DefaultWrapping]

\* file.name.split( '.' ).pop(): what follows the last dot of the name, the
\* name itself without a dot (toLowerCase leaves the names of FileNames as
\* they are)
Extension(fileName) ==
    LET dots == {i \in 1..Len(fileName) : CharAt(fileName, i) = "."}
    IN  IF dots = {} THEN fileName
        ELSE SubSeq(fileName, (CHOOSE i \in dots : \A k \in dots : k <= i) + 1,
                    Len(fileName))

\* setTextureFromFile hands the file to a loader of compressed textures:
\* its extension is ktx2 or dds and this.options has the loader for it
IsCompressedFile(m, fileName) ==
    \/ Extension(fileName) = "ktx2" /\ m.options.ktx2Loader
    \/ Extension(fileName) = "dds" /\ m.options.ddsLoader

\* URL.createObjectURL( file ): a new URL on every call, told apart by the
\* number n of the load it is made for
ObjectUrl(n) == "blob:" \o ToString(n)

\* setTextureFromFile( file ) up to its return: every matching slot gets a
\* placeholder; a compressed file goes to its loader whether or not an
\* entry matches it, any other file to one FileReader if an entry matches
setTextureFromFile(m, fileName) ==
    LET placed == AssignClones(m, fileName, Len(m.cityTextures), PlaceholderTexture)
        compressed == IsCompressedFile(m, fileName)
        started == compressed \/ Matching(m, fileName) # {}
    IN  [placed EXCEPT
            !.needsUpdate = TRUE,
            !.pending = IF ~started THEN m.pending
                        ELSE m.pending \cup
                             {Load(IF compressed THEN "compressed" ELSE "file",
                                   -1, fileName, placed.nextId)},
            !.loaderCalls = IF compressed
                            THEN Append(m.loaderCalls, ObjectUrl(placed.nextId))
                            ELSE m.loaderCalls,
            !.nextId = IF started THEN placed.nextId + 1 ELSE placed.nextId]

\* the onLoad callback of the compressed-texture loader of
\* setTextureFromFile: the loaded texture is named after the file, cached
\* under the file name and cloned into every matching slot
compressedOnLoad(m, load) ==
    LET loadedTex == [Loaded(load.id, ObjectUrl(load.id)) EXCEPT !.name = load.url]
        cached == [m EXCEPT !.textureCache[load.url] = loadedTex]
    IN  [AssignClones(cached, load.url, Len(m.cityTextures), loadedTex) EXCEPT
            !.needsUpdate = TRUE,
            !.pending = m.pending \ {load}]

\* img.onload of setTextureFromFile
imgOnload(m, load) ==
    LET masterTex == Master(load.id, load.url)
        cached == [m EXCEPT !.textureCache[load.url] = masterTex]
    IN  [AssignClones(cached, load.url, Len(m.cityTextures), masterTex) EXCEPT
            !.needsUpdate = TRUE,
            !.pending = m.pending \ {load}]

\* the fields of the manager are those of m
Holds(m) ==
    /\ cityTextures = m.cityTextures
    /\ textures = m.textures
    /\ materials = m.materials
    /\ textureCache = m.textureCache
    /\ needsUpdate = m.needsUpdate
    /\ pending = m.pending
    /\ disposed = m.disposed
    /\ nextId = m.nextId
    /\ loaderCalls = m.loaderCalls
    /\ baseMaterial = m.baseMaterial
    /\ options = m.options

\* what no operation of the manager touches
outsideManager == <<parserVars, orchVars, pc>>

\* the state at the end of new TextureManager( citymodel, options ), for a
\* document whose appearance.textures is one of lists and options of
\* optionSets
ConstructedFrom(lists, optionSets) ==
    /\ json = Doc(FALSE, Undef, <<>>)
    /\ objectIds = <<>>
    /\ objectColors = <<>>
    /\ surfaceColors = <<>>
    /\ lods = <<>>
    /\ trace = <<>>
    /\ peer = NoPeer
    /\ OrchestratorIdle
    /\ pc = "ready"
    /\ args = [op |-> "constructor"]
    /\ ret = NoReturn
    /\ calls = 0
    /\ errorCallback = FALSE
    /\ notified = <<>>
    /\ \E list \in lists, base \in BaseMaterials, opts \in optionSets :
            Holds([Constructed(list, opts) EXCEPT !.baseMaterial = base])

\* the managers of callers that have a KTX2Loader: an uploaded image goes
\* to a FileReader, an uploaded compressed texture to the loader
InitManager == ConstructedFrom(TextureLists, {Ktx2Options})

\* a call of a method that leaves the manager as m.  The calls that make a
\* texture or a material or empty the manager are counted, up to MaxCalls.
Called(m) ==
    LET counted == m.nextId > nextId \/ m.textures # textures \/ m.materials # materials
    IN  /\ counted => calls < MaxCalls
        /\ calls' = IF counted THEN calls + 1 ELSE calls
        /\ Becomes(m)
        /\ UNCHANGED <<outsideManager, errorCallback>>

\* if ( this.onChange ) this.onChange(), with a callback set
OnChange == [call |-> "onChange", type |-> "", url |-> ""]

\* the report of a failed load: this.onError( { type: 'load', url, error } )
\* if this.onError is set, console.error otherwise
ErrorReport(callback, url) ==
    IF callback
    THEN <<[call |-> "onError", type |-> "load", url |-> url]>>
    ELSE <<[call |-> "console.error", type |-> "", url |-> url]>>

SetTextureFromUrl(i, url) ==
    /\ args' = [op |-> "setTextureFromUrl", i |-> i, url |-> url]
    /\ Called(setTextureFromUrl(Manager, i, url))
    /\ notified' = IF CacheHit(Manager, url) THEN <<OnChange>> ELSE <<>>
    /\ UNCHANGED ret

\* a load of setTextureFromUrl completes
OnLoad(load) ==
    /\ load.kind = "url"
    /\ args' = [op |-> "onLoad", load |-> load]
    /\ Becomes(onLoad(Manager, load))
    /\ notified' = <<OnChange>>
    /\ UNCHANGED <<ret, outsideManager, calls, errorCallback>>

\* a load of setTextureFromUrl fails
OnError(load) ==
    /\ load.kind = "url"
    /\ args' = [op |-> "onError", load |-> load]
    /\ Becomes(onError(Manager, load))
    /\ notified' = <<OnChange>> \o ErrorReport(errorCallback, load.url)
    /\ UNCHANGED <<ret, outsideManager, calls, errorCallback>>

\* getMaterials( baseMaterial ): ret is the array it returns, each material
\* as it is at the return
GetMaterials ==
    /\ args' = [op |-> "getMaterials"]
    /\ Called(getMaterials(Manager))
    /\ ret' = [kind |-> "materials",
               recs |-> getMaterials(Manager).materials \o <<baseMaterial>>]
    /\ notified' = <<>>

\* the TypeError a call ends with
TypeError == [call |-> "throw", type |-> "TypeError", url |-> ""]

\* dispose(); a call that ends with the TypeError is not counted
Dispose ==
    /\ args' = [op |-> "dispose"]
    /\ IF DisposeThrows(Manager)
       THEN /\ Becomes(dispose(Manager))
            /\ notified' = <<TypeError>>
            /\ UNCHANGED <<outsideManager, calls, errorCallback>>
       ELSE /\ Called(dispose(Manager))
            /\ notified' = <<>>
    /\ UNCHANGED ret

\* loadFromUrl(), called on the manager after its construction: no request
\* of the loop finds its URL in the cache, which the call has just emptied.
\* It counts as the calls of setTextureFromUrl it makes, one per entry.
LoadFromUrl ==
    /\ calls + Len(cityTextures) <= MaxCalls
    /\ calls' = calls + Len(cityTextures)
    /\ args' = [op |-> "loadFromUrl"]
    /\ Becomes(loadFromUrl(Manager))
    /\ notified' = <<>>
    /\ UNCHANGED <<ret, outsideManager, errorCallback>>

SetTextureFromFile(fileName) ==
    /\ args' = [op |-> "setTextureFromFile", url |-> fileName]
    /\ Called(setTextureFromFile(Manager, fileName))
    /\ notified' = <<OnChange>>
    /\ UNCHANGED ret

\* reader.onload: the FileReader has read an uploaded file; the callback
\* makes the image, sets its handlers and its src, and writes no field of
\* the manager
ReaderOnload(load) ==
    /\ load.kind = "file"
    /\ args' = [op |-> "reader.onload", load |-> load]
    /\ pending' = (pending \ {load}) \cup {[load EXCEPT !.kind = "img"]}
    /\ notified' = <<>>
    /\ UNCHANGED <<ret, outsideManager, cityTextures, textures, materials, textureCache,
                   needsUpdate, disposed, nextId, loaderCalls, calls, errorCallback,
                   baseMaterial, options>>

\* img.onload: the image of an uploaded file has decoded, in a task after
\* reader.onload
ImgOnload(load) ==
    /\ load.kind = "img"
    /\ args' = [op |-> "img.onload", load |-> load]
    /\ Becomes(imgOnload(Manager, load))
    /\ notified' = <<OnChange>>
    /\ UNCHANGED <<ret, outsideManager, calls, errorCallback>>

\* a load of an upload ends without a change of the manager and with the
\* calls report
EndsWith(load, report) ==
    /\ pending' = pending \ {load}
    /\ notified' = report
    /\ UNCHANGED <<ret, outsideManager, cityTextures, textures, materials, textureCache,
                   needsUpdate, disposed, nextId, loaderCalls, calls, errorCallback,
                   baseMaterial, options>>

\* img.onerror: the image of an uploaded file cannot be decoded, in a task
\* after reader.onload; the error is reported
ImgOnerror(load) ==
    /\ load.kind = "img"
    /\ args' = [op |-> "img.onerror", load |-> load]
    /\ EndsWith(load, ErrorReport(errorCallback, load.url))

\* the FileReader cannot read an uploaded file: the reader has an onload
\* handler only, so nothing runs and the matching slots keep their
\* placeholders
ReaderError(load) ==
    /\ load.kind = "file"
    /\ args' = [op |-> "reader.error", load |-> load]
    /\ EndsWith(load, <<>>)

\* the loader of compressed textures has loaded an uploaded file
CompressedOnLoad(load) ==
    /\ load.kind = "compressed"
    /\ args' = [op |-> "compressed.onLoad", load |-> load]
    /\ Becomes(compressedOnLoad(Manager, load))
    /\ notified' = <<OnChange>>
    /\ UNCHANGED <<ret, outsideManager, calls, errorCallback>>

\* the loader of compressed textures fails on an uploaded file: its error
\* callback reports the error
CompressedOnError(load) ==
    /\ load.kind = "compressed"
    /\ args' = [op |-> "compressed.onError", load |-> load]
    /\ EndsWith(load, ErrorReport(errorCallback, load.url))

NextManager ==
    \/ \E i \in Slots, url \in RequestUrls : SetTextureFromUrl(i, url)
    \/ \E load \in pending : OnLoad(load)
    \/ \E load \in pending : OnError(load)
    \/ GetMaterials
    \/ Dispose
    \/ LoadFromUrl
    \/ \E fileName \in FileNames : SetTextureFromFile(fileName)
    \/ \E load \in pending : ReaderOnload(load)
    \/ \E load \in pending : ImgOnload(load)
    \/ \E load \in pending : ImgOnerror(load)
    \/ \E load \in pending : ReaderError(load)
    \/ \E load \in pending : CompressedOnLoad(load)
    \/ \E load \in pending : CompressedOnError(load)

SpecManager == InitManager /\ [][NextManager]_vars

(***************************************************************************)
(* The manager of documents whose textures declare wrap modes, a parent    *)
(* atlas or a procedural image.                                            *)
(***************************************************************************)
\* two slots that share an image and differ in wrapMode (as URLs, and as
\* images that one uploaded file matches), the second entry of one of them
\* being a sub-texture of the first, and two slots with the same
\* procedural URL, and two slots that share a compressed texture and differ
\* in wrapMode; the manager has a KTX2Loader and the base material is the
\* plain object of the tests
AppearanceLists ==
    {<<CityTexture("a.png", "mirror", -1), CityTexture("a.png", "clamp", -1)>>,
     <<CityTexture("tex/a.png", "border", -1), CityTexture("a.png", "", -1)>>,
     <<CityTexture("a.png", "none", -1), CityTexture("a.png", "wrap", 0)>>,
     <<Image("procedural://brick"), Image("procedural://brick")>>,
     <<CityTexture("a.ktx2", "mirror", -1), CityTexture("a.ktx2", "clamp", -1)>>}

InitAppearance ==
    ConstructedFrom(AppearanceLists, {Ktx2Options}) /\ baseMaterial = PlainObject

SpecAppearance == InitAppearance /\ [][NextManager]_vars

(***************************************************************************)
(* The manager with a caller that sets and clears this.onError between the *)
(* calls.                                                                  *)
(***************************************************************************)
\* manager.onError = callback, a function or null
SetOnError(callback) ==
    /\ errorCallback # callback
    /\ errorCallback' = callback
    /\ args' = [op |-> "set onError", callback |-> callback]
    /\ notified' = <<>>
    /\ UNCHANGED <<ret, outsideManager, cityTextures, textures, materials, textureCache,
                   needsUpdate, pending, disposed, nextId, loaderCalls, calls,
                   baseMaterial, options>>

NextReports ==
    \/ NextManager
    \/ \E callback \in BOOLEAN : SetOnError(callback)

\* the manager of a document with two textures of different images, with
\* and without a KTX2Loader (without one an uploaded compressed texture
\* goes to a FileReader too), with the plain object of the tests as base
\* material
InitReports ==
    /\ ConstructedFrom(TextureLists, OptionSets)
    /\ Len(cityTextures) = 2
    /\ cityTextures[1].image # cityTextures[2].image
    /\ baseMaterial = PlainObject

SpecReports == InitReports /\ [][NextReports]_vars

(***************************************************************************)
(* Properties of getTextureData (SpecTexture)                              *)
(***************************************************************************)
Returned == pc = "returned" /\ args.op = "getTextureData"

\* the themes the call resolved
ThemesReached == 1..Len(trace)

ThemeOf(i) == args.texture.themes[i]

\* the number of hole-start offsets that are <= v
OffsetsUpTo(holes, v) == Cardinality({i \in 1..Len(holes) : holes[i] <= v})

\* the largest hole-start offset that is <= v
LargestOffsetUpTo(holes, v) ==
    CHOOSE o \in {holes[i] : i \in 1..Len(holes)} :
        /\ o <= v
        /\ \A i \in 1..Len(holes) : holes[i] <= v => holes[i] <= o

\* values[ surfaceIndex ][ ring ][ vertex + 1 ], read where it exists
StoredUvIndex(i, ring, vertex) ==
    ThemeOf(i).values.a[args.surfaceIndex + 1].a[ring + 1].a[vertex + 2]

\* the ring-0 texture index values[ surfaceIndex ][ 0 ][ 0 ]
StoredTextureIndex(i) == ThemeOf(i).values.a[args.surfaceIndex + 1].a[1].a[1]

\* the entry of the UV table a stored index names
StoredUvs(i, ring, vertex) == json.vt.a[StoredUvIndex(i, ring, vertex).n + 1]

\* the lookup reached the UV-table index of the vertex
HasUvIndex(i) == trace[i].path \in {"invalidUvs", "resolved"}

\* C1: for ascending hole offsets and every vertex position v, the ring id is
\* the number of offsets <= v, the vertex id within the ring is v minus the
\* largest offset <= v (v itself when there is none), and the UV-table index
\* is the one stored at values[surfaceIndex][ringId][vertexId + 1].
C1_RingArithmetic ==
    Returned =>
        \A i \in ThemesReached :
            LET ring == OffsetsUpTo(args.holes, args.vertexIndex)
                vertex == IF ring = 0 THEN args.vertexIndex
                          ELSE args.vertexIndex - LargestOffsetUpTo(args.holes, args.vertexIndex)
            IN  /\ trace[i].ringId # -1 =>
                    trace[i].ringId = ring /\ trace[i].vId = vertex
                /\ HasUvIndex(i) => trace[i].uvIndex = StoredUvIndex(i, ring, vertex)

\* offsets [4] and position 5: ring 1, vertex 1, and the UV-table index 1
\* that the hole ring [0, 3, 1] stores for its second vertex
C1_Witness ==
    /\ Returned
    /\ args.holes = <<4>>
    /\ args.vertexIndex = 5
    /\ args.surfaceIndex = 0
    /\ Len(trace) = 1
    /\ trace[1].ringId = 1
    /\ trace[1].vId = 1
    /\ HasUvIndex(1)
    /\ trace[1].uvIndex = Num(1)

\* the ring and the vertex within it that the claims name for the call
RingOfCall == OffsetsUpTo(args.holes, args.vertexIndex)

VertexOfCall ==
    IF RingOfCall = 0 THEN args.vertexIndex
    ELSE args.vertexIndex - LargestOffsetUpTo(args.holes, args.vertexIndex)

\* the document has a UV table with entries
HasUvTable == json.appearance /\ IsArray(json.vt) /\ Len(json.vt.a) > 0

\* theme i has an entry for the surface that is an array of rings whose
\* ring 0 carries a texture index other than null
SurfaceHasTexture(i) ==
    /\ ThemeOf(i).isObject
    /\ IsArray(ThemeOf(i).values)
    /\ args.surfaceIndex >= 0
    /\ args.surfaceIndex < Len(ThemeOf(i).values.a)
    /\ LET data == ThemeOf(i).values.a[args.surfaceIndex + 1]
       IN  /\ IsArray(data)
           /\ Len(data.a) >= 1
           /\ IsArray(data.a[1])
           /\ Len(data.a[1].a) >= 1
           /\ data.a[1].a[1] # Null

\* the ring of the vertex exists and holds a UV-table index for the vertex
RingHasVertex(i) ==
    LET data == ThemeOf(i).values.a[args.surfaceIndex + 1]
    IN  /\ Len(data.a) > RingOfCall
        /\ IsArray(data.a[RingOfCall + 1])
        /\ Len(data.a[RingOfCall + 1].a) >= VertexOfCall + 2

\* the stored UV-table index names an entry of the UV table
UvIndexInTable(i) ==
    LET uvIndex == StoredUvIndex(i, RingOfCall, VertexOfCall)
    IN  uvIndex.t = "number" /\ uvIndex.n >= 0 /\ uvIndex.n < Len(json.vt.a)

\* the vertex resolves to a UV entry that is a pair of numbers
ResolvesToPair(i) ==
    /\ HasUvTable
    /\ SurfaceHasTexture(i)
    /\ RingHasVertex(i)
    /\ UvIndexInTable(i)
    /\ LET uvs == StoredUvs(i, RingOfCall, VertexOfCall)
       IN  IsArray(uvs) /\ Len(uvs.a) = 2 /\ \A k \in 1..2 : uvs.a[k].t = "number"

\* the ring-0 texture index names a texture entry
NamesTexture(i) ==
    LET index == StoredTextureIndex(i)
    IN  index.t = "number" /\ index.n >= 0 /\ index.n < Len(json.textures)

\* that entry declares atlasTexture, the index of an existing texture
DeclaresParent(i) ==
    LET parent == json.textures[StoredTextureIndex(i).n + 1].atlasTexture
    IN  parent.t = "number" /\ parent.n >= 0 /\ parent.n < Len(json.textures)

\* ... and atlasRegion, four numbers
DeclaresRegion(i) ==
    LET region == json.textures[StoredTextureIndex(i).n + 1].atlasRegion
    IN  IsArray(region) /\ Len(region.a) = 4 /\ \A k \in 1..4 : region.a[k].t = "number"

\* C2: on a texture entry that declares a valid parent atlasTexture and an
\* atlasRegion [x, y, w, h], a vertex whose looked-up UV is (u, v) gets the
\* parent's index, not the sub-texture's own, and the UV (u*w + x, v*h + y),
\* in every ring and also for UVs outside [0,1].
C2_AtlasRemap ==
    Returned =>
        \A i \in ThemesReached :
            (ResolvesToPair(i) /\ NamesTexture(i) /\ DeclaresParent(i) /\ DeclaresRegion(i)) =>
                LET entry == json.textures[StoredTextureIndex(i).n + 1]
                    uvs == StoredUvs(i, RingOfCall, VertexOfCall)
                    x == entry.atlasRegion.a[1].n
                    y == entry.atlasRegion.a[2].n
                    w == entry.atlasRegion.a[3].n
                    h == entry.atlasRegion.a[4].n
                IN  /\ ~trace[i].thrown
                    /\ trace[i].rec.index = entry.atlasTexture
                    /\ trace[i].rec.uvs = Pair((uvs.a[1].n * w) \div UVDen + x,
                                               (uvs.a[2].n * h) \div UVDen + y)
                    /\ ret.kind = "object" => ret.recs[i] = trace[i].rec

\* sub-texture 1 (region [0, 0, 0.5, 0.5] of texture 0), UV (2, 2): texture
\* 0 and UV (1, 1)
C2_Witness ==
    /\ Returned
    /\ ret.kind = "object"
    /\ Len(trace) = 1
    /\ SurfaceHasTexture(1)
    /\ StoredTextureIndex(1) = Num(1)
    /\ ResolvesToPair(1)
    /\ StoredUvs(1, RingOfCall, VertexOfCall) = Pair(8, 8)
    /\ ret.recs[1].index = Num(0)
    /\ ret.recs[1].uvs = Pair(4, 4)

\* C3: on a texture entry whose atlasTexture is missing or names no existing
\* texture, the vertex keeps the ring-0 texture index and the looked-up UV,
\* and the resolution does not throw.
C3_DanglingAtlas ==
    Returned =>
        \A i \in ThemesReached :
            (ResolvesToPair(i) /\ NamesTexture(i) /\ ~DeclaresParent(i)) =>
                /\ ~trace[i].thrown
                /\ trace[i].rec.index = StoredTextureIndex(i)
                /\ trace[i].rec.uvs = StoredUvs(i, RingOfCall, VertexOfCall)
                /\ ret.kind = "object" => ret.recs[i] = trace[i].rec

\* texture 3 declares atlasTexture 99: index 3 and the UV (1, 0) are kept
C3_Witness ==
    /\ Returned
    /\ ret.kind = "object"
    /\ Len(trace) = 1
    /\ SurfaceHasTexture(1)
    /\ StoredTextureIndex(1) = Num(3)
    /\ ResolvesToPair(1)
    /\ json.textures[4].atlasTexture = Num(99)
    /\ ret.recs[1].index = Num(3)
    /\ ret.recs[1].uvs = Pair(4, 0)

\* C4: when the UV-table index of the vertex is missing from its ring or
\* points outside the UV table, the vertex gets the UV [0, 0] and the texture
\* index of the surface, which is the parent's index for an atlas sub-texture
\* and the ring-0 index otherwise, and the resolution does not throw.
C4_InvalidUvIndexKeepsSurfaceIndex ==
    Returned =>
        \A i \in ThemesReached :
            (/\ HasUvTable
             /\ SurfaceHasTexture(i)
             /\ \/ ~RingHasVertex(i)
                \/ ~UvIndexInTable(i)) =>
                /\ ~trace[i].thrown
                /\ trace[i].rec.uvs = Pair(0, 0)
                /\ trace[i].rec.index =
                      IF NamesTexture(i) /\ DeclaresParent(i) /\ DeclaresRegion(i)
                      THEN json.textures[StoredTextureIndex(i).n + 1].atlasTexture
                      ELSE StoredTextureIndex(i)

\* C5: for a surface index outside a theme's values array, or one whose
\* entry is missing, the theme gets the record {index: -1, uvs: [0, 0]} and
\* its resolution does not throw.
C5_SurfaceOutOfRange ==
    Returned =>
        \A i \in ThemesReached :
            (/\ ThemeOf(i).isObject
             /\ IsArray(ThemeOf(i).values)
             /\ \/ args.surfaceIndex < 0
                \/ args.surfaceIndex >= Len(ThemeOf(i).values.a)
                \/ ThemeOf(i).values.a[args.surfaceIndex + 1] \in {Null, Undef}) =>
                /\ ~trace[i].thrown
                /\ trace[i].rec.index = Num(-1)
                /\ trace[i].rec.uvs = Pair(0, 0)
                /\ ret.kind = "object" => ret.recs[i] = trace[i].rec

\* a surface index past the end of the values array, on a document with a UV
\* table: the lookup stops at the surface check
C5_Witness ==
    /\ Returned
    /\ HasUvTable
    /\ Len(trace) = 1
    /\ IsArray(ThemeOf(1).values)
    /\ Len(ThemeOf(1).values.a) > 0
    /\ args.surfaceIndex >= Len(ThemeOf(1).values.a)
    /\ trace[1].path = "missingSurface"
    /\ ret.kind = "object"
    /\ ret.recs[1].index = Num(-1)

\* C6: with a texture table and a document without a vertices-texture
\* table, the call returns undefined.
C6_NoUvTableReturnsUndefined ==
    (Returned /\ args.texture.defined /\ (~json.appearance \/ json.vt = Undef)) =>
        ret.kind = "undefined"

\* C7: the call returns normally for every shape of a theme entry.
C7_NeverThrows == Returned => ret.kind # "throw"

(***************************************************************************)
(* Properties of getSurfaceMaterials (SpecMaterial)                        *)
(***************************************************************************)
MaterialsReturned == pc = "returned" /\ args.op = "getSurfaceMaterials"

\* C8 as stated: one integer per theme for every surface index, which is
\* values[surfaceIndex] for a theme with a values array, else the scalar
\* value when defined, else -1; an absent table gives an empty result.
C8_OneIntegerPerTheme ==
    MaterialsReturned =>
        /\ ret.kind = "object"
        /\ Len(ret.recs) = Len(args.material.themes)
        /\ \A i \in 1..Len(ret.recs) : ret.recs[i].t = "number"

(***************************************************************************)
(* Properties of the index registries (Spec)                               *)
(***************************************************************************)
\* the elements of a sequence
Range(seq) == {seq[i] : i \in 1..Len(seq)}

NoDuplicates(seq) ==
    \A i \in 1..Len(seq) : \A j \in 1..Len(seq) : seq[i] = seq[j] => i = j

\* the call returned the position at which the registry now holds the key
ReturnedPositionOf(seq) ==
    ret >= 0 /\ ret < Len(seq) /\ seq[ret + 1] = args.key

\* every call answers with the position its key has in its registry, or
\* with -1 for a key that has none (an unknown object id, a boundary
\* without a semantic surface, an absent LOD label)
AnswersFromRegistry ==
    /\ args.op = "getObjectIdx" =>
          IF args.key \in Range(objectIds) THEN ReturnedPositionOf(objectIds) ELSE ret = -1
    /\ args.op = "getObjectTypeIdx" => ReturnedPositionOf(Keys(objectColors))
    /\ (args.op = "getSurfaceTypeIdx" /\ ~args.thrown) =>
          IF ~args.found THEN ret = -1 ELSE ReturnedPositionOf(Keys(surfaceColors))
    /\ args.op = "getLodIndex" =>
          IF args.key = Undef THEN ret = -1 ELSE ReturnedPositionOf(lods)

\* no key is at two positions of one registry
KeysDistinct ==
    /\ NoDuplicates(objectIds)
    /\ NoDuplicates(Keys(objectColors))
    /\ NoDuplicates(Keys(surfaceColors))
    /\ NoDuplicates(lods)

\* a step keeps every entry of a registry at its position
KeepsEntries(before, after) ==
    /\ Len(after) >= Len(before)
    /\ \A i \in 1..Len(before) : after[i] = before[i]

\* C9: within one session a key that has been given an index gets the same
\* index on every later call (each call answers with the position of its key
\* in the registry, and no step moves an entry), no registry entry is ever
\* removed, and two keys of one registry never share an index.
C9_StableIndices ==
    /\ [](AnswersFromRegistry /\ KeysDistinct)
    /\ [][/\ KeepsEntries(objectIds, objectIds')
          /\ KeepsEntries(Keys(objectColors), Keys(objectColors'))
          /\ KeepsEntries(Keys(surfaceColors), Keys(surfaceColors'))
          /\ KeepsEntries(lods, lods')]_vars

\* C10: getLodIndex returns -1 for an absent label and leaves the registry
\* as it is; for any other label it returns the position of the label's first
\* occurrence, appending the label behind the others when it is new and
\* changing nothing when it is not, so that no label is in the registry twice
\* and the labels stay in the order of first sight.
C10_LodRegistry ==
    /\ []NoDuplicates(lods)
    /\ [][args'.op = "getLodIndex" =>
            LET lod == args'.key
            IN  /\ lod = Undef => ret' = -1 /\ lods' = lods
                /\ lod # Undef =>
                    /\ ret' >= 0
                    /\ ret' < Len(lods')
                    /\ lods'[ret' + 1] = lod
                    /\ \A j \in 1..ret' : lods'[j] # lod
                    /\ lod \in Range(lods) => lods' = lods
                    /\ lod \notin Range(lods) => lods' = lods \o <<lod>>]_vars

\* the labels "1" and 1 were seen in this order, and a later call for "1"
\* is answered with 0
C10_Witness ==
    /\ args.op = "getLodIndex"
    /\ args.key = Str("1")
    /\ lods = <<Str("1"), Num(1)>>
    /\ ret = 0

(***************************************************************************)
(* C11: two parsers constructed separately own independent registries: a   *)
(* call of one parser that interns an object type, a surface type or a LOD *)
(* label changes neither the color maps nor the LOD list (and so none of   *)
(* the indices) the other parser sees.                                     *)
(***************************************************************************)
CallerOf(call) == IF "session" \in DOMAIN call THEN call.session ELSE 1

SeenBy(session) == <<ObjectColorsOf(session), SurfaceColorsOf(session), LodsOf(session)>>

C11_IndependentSessions ==
    [][\A session \in Sessions :
          CallerOf(args') # session => SeenBy(session)' = SeenBy(session)]_vars

(***************************************************************************)
(* C12: a cooperative run that completes has notified one chunk per batch,  *)
(* that is ceil(N / batchSize) chunks for N objects (3 for 5000 objects in *)
(* batches of 2000), and the notified buffers, concatenated in the order of *)
(* emission, are the records of the blocking mode on the same collection.  *)
(***************************************************************************)
RECURSIVE Concatenated(_, _)
Concatenated(buffers, n) ==
    IF n = 0 THEN <<>> ELSE Concatenated(buffers, n - 1) \o buffers[n]

BatchesOf(n, batchSize) == (n + batchSize - 1) \div batchSize

IsParse == args.op = "parse"

C12_ChunksEqualBlocking ==
    (IsParse /\ pc = "done") =>
        /\ Len(chunks) = BatchesOf(Len(args.objects), args.batchSize)
        /\ Concatenated(chunks, Len(chunks)) = BlockingParse(args.objects, Len(args.objects))

\* a completed run of several batches, the last one shorter than the others,
\* over objects with and without geometries
C12_Witness ==
    /\ IsParse /\ pc = "done"
    /\ Len(chunks) = 2
    /\ Len(args.objects) = 3 /\ args.batchSize = 2
    /\ args.objects[1] = 2 /\ args.objects[2] = 0 /\ args.objects[3] = 1

(***************************************************************************)
(* C13: a stop requested during a cooperative run takes effect at the next *)
(* batch boundary.  Every notified chunk holds the records of its whole     *)
(* batch, also when the stop was requested during the batch; the run stops *)
(* only between two batches; once the stop is requested no batch is        *)
(* started; a stopped run does nothing more; and a chunk once notified      *)
(* stays as notified, whatever happens later.                               *)
(***************************************************************************)
RECURSIVE RecordsBetween(_, _, _)
RecordsBetween(objects, first, last) ==
    IF last < first THEN <<>>
    ELSE RecordsBetween(objects, first, last - 1) \o ObjectRecords(objects, last)

LastOfBatch(k) ==
    IF k * args.batchSize < Len(args.objects) THEN k * args.batchSize ELSE Len(args.objects)

WholeBatches ==
    \A k \in 1..Len(chunks) :
        chunks[k] = RecordsBetween(args.objects, (k - 1) * args.batchSize + 1, LastOfBatch(k))

EmittedChunksStay ==
    /\ Len(chunks') >= Len(chunks)
    /\ \A k \in 1..Len(chunks) : chunks'[k] = chunks[k]

C13_StopAtBatchBoundary ==
    /\ [](WholeBatches)
    /\ [][/\ EmittedChunksStay
          /\ pc' = "stopped" => (pc = "yielded" /\ stopRequested /\ buffer = <<>>)
          /\ (stopRequested /\ pc = "yielded") => pc' = "stopped"
          /\ pc # "stopped"]_vars

\* a run stopped after its first batch of two objects, two more being left
C13_Witness ==
    /\ IsParse /\ pc = "stopped" /\ stopRequested
    /\ Len(args.objects) = 4 /\ args.batchSize = 2
    /\ cursor = 2
    /\ Len(chunks) = 1 /\ Len(chunks[1]) = 3

(***************************************************************************)
(* C14: textures that share an image URL are loaded once: between two      *)
(* resets of the cache loader.load is called at most once for a URL,       *)
(* whatever the order of the requests and of the completions.              *)
(***************************************************************************)
LoaderCallsFor(url) == Cardinality({n \in 1..Len(loaderCalls) : loaderCalls[n] = url})

C14_LoadedOncePerUrl == \A url \in Urls : LoaderCallsFor(url) <= 1

(***************************************************************************)
(* C15: when the load of a URL for slot i fails, slot i holds the fallback *)
(* texture named 'fallback' after the callback, textureCache has no entry  *)
(* for the URL, needsUpdate is set and every other slot holds what it held *)
(* before.                                                                 *)
(***************************************************************************)
C15_FailedLoad ==
    [][args'.op = "onError" =>
          /\ textures'[args'.load.i] = Fallback(args'.load.id)
          /\ textures'[args'.load.i].name = "fallback"
          /\ ~HasTexture(textureCache'[args'.load.url])
          /\ needsUpdate'
          /\ \A j \in Slots \ {args'.load.i} : textures'[j] = textures[j]]_vars

\* of two slots the first load has failed and the second has completed
C15_Witness ==
    /\ args.op = "onError" /\ args.load.i = 0
    /\ Len(cityTextures) = 2
    /\ textures[0].name = "fallback"
    /\ textures[1].name = "" /\ textures[1].image = cityTextures[2].image
    /\ ~HasTexture(textureCache[args.load.url])
    /\ needsUpdate

(***************************************************************************)
(* C16: from the start of a URL load for a slot until the load settles the *)
(* slot holds a placeholder texture, never nothing; when the load has      *)
(* settled the slot holds the loaded texture after a success and the       *)
(* fallback texture after a failure.                                       *)
(***************************************************************************)
C16_PlaceholderUntilSettled ==
    /\ \A load \in pending :
          load.kind = "url" => textures[load.i].name = "placeholder"
    /\ args.op = "onLoad" =>
          /\ textures[args.load.i].id = args.load.id
          /\ textures[args.load.i].image = args.load.url
    /\ args.op = "onError" => textures[args.load.i] = Fallback(args.load.id)

(***************************************************************************)
(* C17: in every state, a texture material of the material list has as     *)
(* its cityTexture uniform the texture that its slot holds: whatever       *)
(* changes the slot (load success, load failure, cache hit, file upload)   *)
(* switches the material of the slot in the same step.                     *)
(***************************************************************************)
C17_MaterialFollowsSlot ==
    \A n \in 1..Len(materials) :
        ~IsBaseMaterial(materials[n]) => materials[n].cityTexture = textures[n - 1]

(***************************************************************************)
(* C18: whatever load events came before, the array getMaterials returns   *)
(* has totalTextures + 1 entries, its last entry is the base material, and *)
(* entry i is the base material when slot i holds no texture and a texture *)
(* material (with the texture of slot i) when it holds one.                *)
(***************************************************************************)
TotalTextures == Len(cityTextures)

C18_MaterialList ==
    args.op = "getMaterials" =>
        /\ Len(ret.recs) = TotalTextures + 1
        /\ IsBaseMaterial(ret.recs[TotalTextures + 1])
        /\ \A n \in 1..TotalTextures :
              IF HasTexture(textures[n - 1])
              THEN ~IsBaseMaterial(ret.recs[n]) /\ ret.recs[n].cityTexture = textures[n - 1]
              ELSE IsBaseMaterial(ret.recs[n])

(***************************************************************************)
(* C19: getMaterials builds a new list only when the list is empty or      *)
(* needsUpdate is set; a rebuild disposes every texture material of the    *)
(* list before and clears needsUpdate.  As the claim has it, two calls     *)
(* between which no texture has changed return the same material objects   *)
(* (C19_SameListWithoutTextureChange); what holds is that a call made      *)
(* while the list is not empty and needsUpdate is not set returns the      *)
(* objects of the call before (C19_RebuildOnlyWhenFlagged).                *)
(***************************************************************************)
IsGetMaterialsStep == args'.op = "getMaterials"

\* the step has made new materials
RebuiltInStep == nextId' > nextId

RebuildAsFlagged ==
    /\ RebuiltInStep => (Len(materials) = 0 \/ needsUpdate)
    /\ (Len(materials) = 0 \/ needsUpdate) =>
          /\ ~needsUpdate'
          /\ \A n \in 1..Len(materials) :
                ~IsBaseMaterial(materials[n]) => materials[n].id \in disposed'
          /\ \A n \in 1..Len(materials') :
                ~IsBaseMaterial(materials'[n]) => materials'[n].id >= nextId

\* the objects of the array returned by the step are those of the array
\* returned by the call before
SameObjectsAsBefore ==
    /\ Len(ret'.recs) = Len(ret.recs)
    /\ \A n \in 1..Len(ret.recs) : ret'.recs[n].id = ret.recs[n].id

\* every slot holds the texture it held when the call before returned
NoTextureChangeSinceReturn ==
    /\ ret.kind = "materials"
    /\ \A n \in 1..TotalTextures : ret.recs[n].cityTexture = textures[n - 1]

C19_SameListWithoutTextureChange ==
    [][IsGetMaterialsStep =>
          /\ RebuildAsFlagged
          /\ NoTextureChangeSinceReturn => SameObjectsAsBefore]_vars

C19_RebuildOnlyWhenFlagged ==
    [][IsGetMaterialsStep =>
          /\ RebuildAsFlagged
          /\ (ret.kind = "materials" /\ Len(materials) # 0 /\ ~needsUpdate) =>
                (SameObjectsAsBefore /\ materials' = materials /\ disposed' = disposed)]_vars

\* a second rebuild: the texture material of the list before is disposed,
\* the list holds a new one
C19_Witness ==
    /\ args.op = "getMaterials"
    /\ PlaceholderId \notin disposed
    /\ Len(materials) >= 1 /\ ~IsBaseMaterial(materials[1])
    /\ \E id \in disposed : id < materials[1].id
    /\ ~needsUpdate

(***************************************************************************)
(* C20: dispose() calls dispose on every texture held in a slot and on     *)
(* every material of the material list, and leaves textures, materials and *)
(* textureCache empty; it does not throw when no material was ever built.  *)
(***************************************************************************)
C20_DisposeEmpties ==
    [][args'.op = "dispose" =>
          /\ \A i \in Slots : HasTexture(textures[i]) => textures[i].id \in disposed'
          /\ \A n \in 1..Len(materials) : materials[n].id \in disposed'
          /\ \A i \in Slots : ~HasTexture(textures'[i])
          /\ materials' = <<>>
          /\ \A key \in Urls : ~HasTexture(textureCache'[key])
          /\ materials = <<>> => notified' = <<>>]_vars

(***************************************************************************)
(* Validation and defaults of getTextureData (SpecTexture)                 *)
(***************************************************************************)
\* the UV-table entry the lookup of theme i resolved for the vertex
ResolvedUvEntry(i) == GetByValue(TextureVertices(json), trace[i].uvIndex)

\* a pair of exactly two finite numbers
IsFinitePair(uvs) ==
    IsArray(uvs) /\ Len(uvs.a) = 2 /\ \A k \in 1..2 : uvs.a[k].t = "number"

\* C23: when the UV-table entry resolved for the vertex is missing, is not a
\* pair of exactly two numbers, or has a NaN or infinite component, the
\* vertex gets the UV [0, 0]; a pair of two finite numbers, also one outside
\* [0, 1], is returned as it is (on a texture that is not an atlas
\* sub-texture, whose UVs are remapped).
C23_InvalidUvEntryGetsDefault ==
    Returned =>
        \A i \in ThemesReached :
            HasUvIndex(i) =>
                IF IsFinitePair(ResolvedUvEntry(i))
                THEN ~IsAtlasSubTexture(json, StoredTextureIndex(i)) =>
                        trace[i].rec.uvs = ResolvedUvEntry(i)
                ELSE trace[i].rec.uvs = Pair(0, 0)

\* the return statements of the map callback that put a default in the place
\* of looked-up data; "noValues" counts when the theme has values that are
\* not an array
SubstitutesDefault(i) ==
    \/ trace[i].path \in {"missingSurface", "invalidStructure", "missingRing",
                          "missingUvIndex", "invalidUvs"}
    \/ /\ trace[i].path = "noValues"
       /\ Truthy(ThemeOf(i).values)
       /\ ~IsArray(ThemeOf(i).values)

\* C24: every path on which getTextureData puts a default in the place of
\* looked-up data (surface entry missing or malformed, ring missing, UV index
\* missing, UV entry missing or invalid, theme values not an array) calls
\* console.warn.
C24_EveryDefaultWarns ==
    Returned =>
        \A i \in ThemesReached : SubstitutesDefault(i) => trace[i].warn

\* the ring-0 texture index of the surface is null or absent
NoRingZeroIndex(i) ==
    /\ ThemeOf(i).isObject
    /\ IsArray(ThemeOf(i).values)
    /\ args.surfaceIndex >= 0
    /\ args.surfaceIndex < Len(ThemeOf(i).values.a)
    /\ LET data == ThemeOf(i).values.a[args.surfaceIndex + 1]
       IN  /\ IsArray(data)
           /\ Len(data.a) >= 1
           /\ IsArray(data.a[1])
           /\ Get(data.a[1], 0) \in {Null, Undef}

\* C25: every record of a returned object has a number as index and an array
\* of two numbers as uvs, and the record of a surface whose ring 0 has a null
\* or no texture index is {index: -1, uvs: [0, 0]}.
C25_RecordShape ==
    (Returned /\ ret.kind = "object") =>
        \A i \in 1..Len(ret.recs) :
            /\ ret.recs[i].index.t = "number"
            /\ IsArray(ret.recs[i].uvs)
            /\ Len(ret.recs[i].uvs.a) = 2
            /\ \A k \in 1..2 : IsNumberType(ret.recs[i].uvs.a[k])
            /\ (HasUvTable /\ NoRingZeroIndex(i)) => ret.recs[i] = DefaultRecord

(***************************************************************************)
(* C21: a texture that a slot got from a successful URL load, from the     *)
(* cache or from an uploaded file has as wrapS and wrapT the wrapping of   *)
(* the wrapMode of its own slot: repeat for wrap or no wrapMode, mirrored  *)
(* repeat for mirror, clamp to edge for clamp, border and none; also when  *)
(* slots with different wrapModes share one cached image.                  *)
(***************************************************************************)
\* the wrapMode the entry of slot i declares, "" for none
WrapModeOfSlot(i) ==
    IF i < Len(cityTextures) THEN cityTextures[i + 1].wrapMode ELSE ""

\* the texture of slot i was delivered by a loader, cloned from the cache or
\* cloned from the image of an uploaded file
FromLoadCacheOrFile(i) ==
    /\ HasTexture(textures[i])
    /\ textures[i].name \notin {"placeholder", "fallback"}

C21_WrapOfOwnSlot ==
    \A i \in Slots :
        FromLoadCacheOrFile(i) =>
            textures[i].wrap =
                CASE WrapModeOfSlot(i) \in {"", "wrap"} -> "RepeatWrapping"
                  [] WrapModeOfSlot(i) = "mirror" -> "MirroredRepeatWrapping"
                  [] WrapModeOfSlot(i) \in {"clamp", "border", "none"} -> "ClampToEdgeWrapping"

\* slot 0 (mirror) holds the texture its load delivered, slot 1 (clamp) a
\* clone of that texture from the cache
C21_Witness ==
    /\ Len(cityTextures) = 2
    /\ cityTextures[1].wrapMode = "mirror" /\ cityTextures[2].wrapMode = "clamp"
    /\ textures[0].cloneOf = -1 /\ textures[0].image = "a.png"
    /\ textures[1].cloneOf = textures[0].id
    /\ textures[0].wrap = "MirroredRepeatWrapping"
    /\ textures[1].wrap = "ClampToEdgeWrapping"

(***************************************************************************)
(* C22: a texture whose image URL starts with procedural:// is generated   *)
(* inside setTextureFromUrl: right after the construction its slot holds   *)
(* the generated texture, named by the full URL, and not a placeholder, no *)
(* loader was started for the URL, and two slots with the same URL hold    *)
(* two texture objects with the same generated image.                      *)
(***************************************************************************)
\* the URL starts with procedural://
IsProcedural(url) == url = "procedural://brick"

ProceduralSlots ==
    {i \in 0..(Len(cityTextures) - 1) : IsProcedural(cityTextures[i + 1].image)}

C22_ProceduralGenerated ==
    args.op = "constructor" =>
        /\ \A i \in ProceduralSlots :
              /\ textures[i].name = cityTextures[i + 1].image
              /\ textures[i].name # "placeholder"
        /\ \A n \in 1..Len(loaderCalls) : ~IsProcedural(loaderCalls[n])
        /\ \A load \in pending : ~IsProcedural(load.url)
        /\ \A i, j \in ProceduralSlots :
              (i # j /\ cityTextures[i + 1].image = cityTextures[j + 1].image) =>
                  /\ textures[i].id # textures[j].id
                  /\ textures[i].image = textures[j].image

(***************************************************************************)
(* C27: loadFromUrl starts no image load for an entry that declares        *)
(* atlasTexture: after the construction no load is in flight for the slot  *)
(* of a sub-texture, and loader.load was called at most once for each      *)
(* entry that is not a sub-texture.                                        *)
(***************************************************************************)
\* the entry of slot i declares atlasTexture
IsSubTexture(i) == i < Len(cityTextures) /\ cityTextures[i + 1].atlasTexture # -1

C27_NoLoadForSubTexture ==
    args.op = "constructor" =>
        /\ \A load \in pending : load.kind = "url" => ~IsSubTexture(load.i)
        /\ Len(loaderCalls) <=
              Cardinality({i \in 0..(Len(cityTextures) - 1) : ~IsSubTexture(i)})

(***************************************************************************)
(* C26: every failed texture load is reported exactly once: by the onError *)
(* callback, with {type: 'load', url, error}, when a callback is set at    *)
(* the time of the failure, by console.error otherwise; never by both and  *)
(* never by none.                                                          *)
(***************************************************************************)
\* the step is the failure of a load: of a URL, of the decoding or of the
\* reading of an uploaded image, of an uploaded compressed texture
IsFailedLoad ==
    args'.op \in {"onError", "img.onerror", "reader.error", "compressed.onError"}

\* what the step reported through this.onError and console.error
ReportsOfStep ==
    SelectSeq(notified', LAMBDA n : n.call \in {"onError", "console.error"})

C26_OneErrorReport ==
    [][IsFailedLoad =>
          /\ Len(ReportsOfStep) = 1
          /\ ReportsOfStep[1].url = args'.load.url
          /\ IF errorCallback
             THEN ReportsOfStep[1].call = "onError" /\ ReportsOfStep[1].type = "load"
             ELSE ReportsOfStep[1].call = "console.error"]_vars

(***************************************************************************)
(* C28: the texture of a slot comes from the latest request for the slot:  *)
(* when an older URL load completes or fails after a later                 *)
(* setTextureFromUrl or setTextureFromFile has put a texture into its      *)
(* slot, the slot keeps that texture.                                      *)
(***************************************************************************)
\* the step is the completion or the failure of a URL load
IsUrlLoadSettling == args'.op \in {"onLoad", "onError"}

\* the slot of the load holds a texture other than the placeholder its own
\* request put there: a later request has written the slot
SupersededLoad(load) ==
    /\ HasTexture(textures[load.i])
    /\ textures[load.i].id # load.id - 1

C28_LatestRequestWins ==
    [][(IsUrlLoadSettling /\ SupersededLoad(args'.load)) =>
          textures'[args'.load.i] = textures[args'.load.i]]_vars

(***************************************************************************)
(* C29: after dispose() the manager stays empty: a load that was in flight *)
(* at the time puts no texture into textures or textureCache and calls no  *)
(* onChange when it completes or fails.                                    *)
(***************************************************************************)
\* dispose() has been called and no request has been made since: the slots
\* and the cache are empty, so every load in flight is from before
DisposedAndEmpty ==
    /\ PlaceholderId \in disposed
    /\ \A i \in Slots : ~HasTexture(textures[i])
    /\ \A key \in Urls : ~HasTexture(textureCache[key])

IsLoadSettling == args'.op \in {"onLoad", "onError", "img.onload", "img.onerror"}

C29_StaysEmptyAfterDispose ==
    [][(DisposedAndEmpty /\ IsLoadSettling) =>
          /\ \A i \in Slots : ~HasTexture(textures'[i])
          /\ \A key \in Urls : ~HasTexture(textureCache'[key])
          /\ \A n \in 1..Len(notified') : notified'[n] # OnChange]_vars

(***************************************************************************)
(* C30: the manager leaves the caller's base material alone: no rebuild of *)
(* the material list, no dispose() and no completion of a load calls       *)
(* dispose on it or writes to its cityTexture uniform, also while it       *)
(* stands in the list for a slot without a texture.                        *)
(***************************************************************************)
C30_BaseMaterialUntouched ==
    /\ baseMaterial.id \notin disposed
    /\ baseMaterial.cityTexture = NoTexture

====
